---- MODULE Spec2Model ----
(***************************************************************************)
(* Token codec and signer/verifier engine of verify.sjcet.in (lib/jwt.ts). *)
(*                                                                         *)
(* Strings are sequences of character codes (UTF-16 code units, which are  *)
(* the ASCII / Latin-1 codes for every character below 256); byte strings  *)
(* are sequences of 0..255.  A token is the string the program handles:    *)
(* base64url characters and dots.                                          *)
(***************************************************************************)
EXTENDS Integers, Sequences, FiniteSets, TLC

(***************************************************************************)
(* Let(e, F) is F(e) with e evaluated once: `const v = e; return F(v)`.    *)
(***************************************************************************)
Let(e, F(_)) == CHOOSE r \in {F(v) : v \in {e}} : TRUE

(***************************************************************************)
(* Sequence helpers.                                                       *)
(***************************************************************************)
\* the concatenation of the sequences ss[lo..hi], by halves
RECURSIVE FlattenRange(_, _, _)
FlattenRange(ss, lo, hi) ==
  IF lo > hi THEN <<>>
  ELSE IF lo = hi THEN ss[lo]
  ELSE FlattenRange(ss, lo, (lo + hi) \div 2) \o FlattenRange(ss, ((lo + hi) \div 2) + 1, hi)

Flatten(ss) == Let(ss, LAMBDA v : FlattenRange(v, 1, Len(v)))

Repeat(c, n) == [i \in 1..n |-> c]

Slice(s, a, b) == IF a > b THEN <<>> ELSE SubSeq(s, a, b)

Pow2(k) == 2 ^ k

(***************************************************************************)
(* The base64 alphabet A-Z a-z 0-9 + / as used by btoa and atob.           *)
(***************************************************************************)
B64Char(i) ==
  IF i < 26 THEN 65 + i
  ELSE IF i < 52 THEN 97 + (i - 26)
  ELSE IF i < 62 THEN 48 + (i - 52)
  ELSE IF i = 62 THEN 43 ELSE 47

B64Index(c) ==
  IF c >= 65 /\ c <= 90 THEN c - 65
  ELSE IF c >= 97 /\ c <= 122 THEN c - 97 + 26
  ELSE IF c >= 48 /\ c <= 57 THEN c - 48 + 52
  ELSE IF c = 43 THEN 62
  ELSE IF c = 47 THEN 63
  ELSE -1

(***************************************************************************)
(* btoa: each code unit must be a byte (<= 255), else it throws            *)
(* InvalidCharacterError; three bytes give four characters, the last group *)
(* is padded with '='.                                                     *)
(***************************************************************************)
btoa(str) ==
  Let(str, LAMBDA data :
    IF \E i \in 1..Len(data) : data[i] > 255
    THEN [s |-> <<>>, ok |-> FALSE]
    ELSE
      LET n == Len(data)
          byte(i) == IF i <= n THEN data[i] ELSE 0
          ch(k) ==
            LET g == (k - 1) \div 4
                j == (k - 1) % 4
                trip == byte(3 * g + 1) * 65536 + byte(3 * g + 2) * 256 + byte(3 * g + 3)
            IN IF j >= 2 /\ 3 * g + j > n
               THEN 61
               ELSE B64Char((trip \div (64 ^ (3 - j))) % 64)
      IN [s |-> [k \in 1..(4 * ((n + 2) \div 3)) |-> ch(k)], ok |-> TRUE])

(***************************************************************************)
(* atob: the forgiving-base64 decode.  ASCII whitespace is removed; when   *)
(* the length is a multiple of 4, one or two trailing '=' are removed; a   *)
(* length of 1 mod 4 or a character outside the alphabet throws            *)
(* InvalidCharacterError; the bits left over after the last whole byte are *)
(* discarded.                                                              *)
(***************************************************************************)
IsAsciiWhitespace(c) == c \in {9, 10, 12, 13, 32}

\* the string without one or two trailing '=' when its length is a multiple of 4
StripPadding(str) ==
  Let(str, LAMBDA d :
    IF Len(d) > 0 /\ Len(d) % 4 = 0
    THEN IF d[Len(d)] = 61 /\ d[Len(d) - 1] = 61 THEN Slice(d, 1, Len(d) - 2)
         ELSE IF d[Len(d)] = 61 THEN Slice(d, 1, Len(d) - 1)
         ELSE d
    ELSE d)

atob(str) ==
  Let(StripPadding(SelectSeq(str, LAMBDA c : ~IsAsciiWhitespace(c))), LAMBDA data :
    LET n == Len(data)
        idx(q) == B64Index(data[q])
        byte(m) ==
          LET q == ((8 * m) \div 6) + 1
              r == (8 * m) % 6
          IN ((idx(q) * 64 + idx(q + 1)) \div Pow2(4 - r)) % 256
    IN IF n % 4 = 1 \/ (\E q \in 1..n : B64Index(data[q]) < 0)
       THEN [s |-> <<>>, ok |-> FALSE]
       ELSE [s |-> [m \in 1..((n * 6) \div 8) |-> byte(m - 1)], ok |-> TRUE])

(***************************************************************************)
(* base64UrlEncode / base64UrlDecode of lib/jwt.ts.                        *)
(***************************************************************************)
ReplaceChar(str, from, to) ==
  Let(str, LAMBDA s : [i \in 1..Len(s) |-> IF s[i] = from THEN to ELSE s[i]])

base64UrlEncode(data) ==
  Let(btoa(data), LAMBDA b :
    IF ~b.ok THEN b
    ELSE [s |-> SelectSeq(ReplaceChar(ReplaceChar(b.s, 43, 45), 47, 95),
                          LAMBDA c : c # 61),
          ok |-> TRUE])

base64UrlDecode(data) ==
  Let(ReplaceChar(ReplaceChar(data, 45, 43), 95, 47), LAMBDA padded :
    LET padding == 4 - (Len(padded) % 4)
    IN atob(IF padding # 4 THEN padded \o Repeat(61, padding) ELSE padded))

(***************************************************************************)
(* JSON values.  Every value is a record [n, s, t]: t the type, n the      *)
(* number (or 0/1 of a boolean), s the characters of a string, the items   *)
(* of an array or the members [v, k] of an object in insertion order.      *)
(* Undefined is what a property read gives for a key that is not there.    *)
(*                                                                         *)
(* Every record of this module lists its fields in the order in which      *)
(* their names first occur in the module.  That is the order in which TLC  *)
(* keeps the fields of a record, so a value that its workers share is      *)
(* never reordered in place while another worker reads it.                 *)
(***************************************************************************)
JNull == [n |-> 0, s |-> <<>>, t |-> "null"]
Undefined == [n |-> 0, s |-> <<>>, t |-> "undefined"]
JBool(b) == [n |-> IF b THEN 1 ELSE 0, s |-> <<>>, t |-> "bool"]
JNum(k) == [n |-> k, s |-> <<>>, t |-> "num"]
JStr(cs) == [n |-> 0, s |-> cs, t |-> "str"]
JArr(items) == [n |-> 0, s |-> items, t |-> "arr"]
JObj(members) == [n |-> 0, s |-> members, t |-> "obj"]
Member(key, val) == [v |-> val, k |-> key]

HasKey(obj, key) == \E i \in 1..Len(obj.s) : obj.s[i].k = key

\* obj[key]: a property read.  Numbers, strings, booleans and arrays have none
\* of the claim names as properties; reading a property of null throws
\* TypeError, which the callers test with IsNullish before they read.
Get(object, key) ==
  Let(object, LAMBDA obj :
    IF obj.t = "obj" /\ HasKey(obj, key)
    THEN obj.s[CHOOSE i \in 1..Len(obj.s) : obj.s[i].k = key].v
    ELSE Undefined)

IsNullish(v) == v.t \in {"null", "undefined"}

\* obj[key] = val on an object: an existing key keeps its place, a new key
\* goes last (insertion order, which JSON.stringify follows).
SetKey(object, key, val) ==
  Let(object, LAMBDA obj :
    IF HasKey(obj, key)
    THEN JObj([i \in 1..Len(obj.s) |->
                 IF obj.s[i].k = key THEN Member(key, val) ELSE obj.s[i]])
    ELSE JObj(Append(obj.s, Member(key, val))))

\* Strict equality of two JSON values (a.t is compared first: the s fields of
\* values of different types are not comparable).
RECURSIVE JEq(_, _)
JEq(a, b) ==
  /\ a.t = b.t
  /\ a.n = b.n
  /\ Len(a.s) = Len(b.s)
  /\ IF a.t = "obj"
     THEN \A i \in 1..Len(a.s) : a.s[i].k = b.s[i].k /\ JEq(a.s[i].v, b.s[i].v)
     ELSE IF a.t = "arr"
     THEN \A i \in 1..Len(a.s) : JEq(a.s[i], b.s[i])
     ELSE a.s = b.s

\* ToBoolean
Truthy(v) ==
  CASE v.t \in {"null", "undefined"} -> FALSE
    [] v.t = "bool" -> v.n = 1
    [] v.t = "num" -> v.n # 0
    [] v.t = "str" -> v.s # <<>>
    [] OTHER -> TRUE

\* value !== str for a string str
NotStrictEqStr(v, str) == ~(v.t = "str" /\ v.s = str)

IsDigit(c) == c >= 48 /\ c <= 57

RECURSIVE DigitsValue(_)
DigitsValue(ds) ==
  IF ds = <<>> THEN 0
  ELSE 10 * DigitsValue(Slice(ds, 1, Len(ds) - 1)) + (ds[Len(ds)] - 48)

\* ToNumber for the relational operators: [isNum, n].  Numbers, booleans and
\* null convert to their value, a string of decimal digits to its value; any
\* other string, an array, an object or undefined compares as NaN.
ToNumber(v) ==
  CASE v.t = "num" -> [n |-> v.n, isNum |-> TRUE]
    [] v.t = "bool" -> [n |-> v.n, isNum |-> TRUE]
    [] v.t = "null" -> [n |-> 0, isNum |-> TRUE]
    [] v.t = "str" /\ v.s # <<>> /\ (\A i \in 1..Len(v.s) : IsDigit(v.s[i]))
         -> [n |-> DigitsValue(v.s), isNum |-> TRUE]
    [] OTHER -> [n |-> 0, isNum |-> FALSE]

LessThan(v, k) == Let(ToNumber(v), LAMBDA x : x.isNum /\ x.n < k)

GreaterThan(v, k) == Let(ToNumber(v), LAMBDA x : x.isNum /\ x.n > k)

(***************************************************************************)
(* JSON.stringify: no whitespace, members in insertion order, strings      *)
(* quoted with the escapes of the standard.                                *)
(***************************************************************************)
RECURSIVE DigitsOf(_)
DigitsOf(k) == IF k < 10 THEN <<48 + k>> ELSE Append(DigitsOf(k \div 10), 48 + (k % 10))

NumText(k) == IF k < 0 THEN <<45>> \o DigitsOf(-k) ELSE DigitsOf(k)

HexDigit(d) == IF d < 10 THEN 48 + d ELSE 97 + (d - 10)

QuoteChar(c) ==
  CASE c = 34 -> <<92, 34>>
    [] c = 92 -> <<92, 92>>
    [] c = 8 -> <<92, 98>>
    [] c = 12 -> <<92, 102>>
    [] c = 10 -> <<92, 110>>
    [] c = 13 -> <<92, 114>>
    [] c = 9 -> <<92, 116>>
    [] c < 32 /\ c \notin {8, 9, 10, 12, 13}
         -> <<92, 117, 48, 48, HexDigit(c \div 16), HexDigit(c % 16)>>
    [] OTHER -> <<c>>

Quote(str) ==
  Let(str, LAMBDA s : <<34>> \o Flatten([i \in 1..Len(s) |-> QuoteChar(s[i])]) \o <<34>>)

\* the items joined by commas
Join(items) ==
  Let(items, LAMBDA xs :
    Flatten([i \in 1..Len(xs) |-> IF i = 1 THEN xs[i] ELSE <<44>> \o xs[i]]))

RECURSIVE JSONstringify(_)
JSONstringify(value) ==
  Let(value, LAMBDA v :
    CASE v.t = "null" -> <<110, 117, 108, 108>>
      [] v.t = "bool" -> IF v.n = 1 THEN <<116, 114, 117, 101>>
                         ELSE <<102, 97, 108, 115, 101>>
      [] v.t = "num" -> NumText(v.n) \o v.s
      [] v.t = "str" -> Quote(v.s)
      [] v.t = "arr" ->
           <<91>> \o Join([i \in 1..Len(v.s) |-> JSONstringify(v.s[i])]) \o <<93>>
      [] v.t = "obj" ->
           <<123>>
           \o Join([i \in 1..Len(v.s) |->
                      Quote(v.s[i].k) \o <<58>> \o JSONstringify(v.s[i].v)])
           \o <<125>>)

(***************************************************************************)
(* JSON.parse: a recursive descent over the text.  Every parser returns    *)
(* [ok, v, i]: whether it matched, the value, and the index of the first   *)
(* character it did not read.  A failure is the SyntaxError JSON.parse     *)
(* throws.  A number with a fraction or an exponent keeps its integer part *)
(* in n and the rest of its text in s.                                     *)
(***************************************************************************)
At(text, i) == IF i >= 1 /\ i <= Len(text) THEN text[i] ELSE -1

ParseFail == [v |-> Undefined, i |-> 0, ok |-> FALSE]

ParseOk(val, next) == [v |-> val, i |-> next, ok |-> TRUE]

IsJsonWhitespace(c) == c \in {9, 10, 13, 32}

RECURSIVE SkipWs(_, _)
SkipWs(text, i) == IF IsJsonWhitespace(At(text, i)) THEN SkipWs(text, i + 1) ELSE i

RECURSIVE DigitsEnd(_, _)
DigitsEnd(text, i) == IF IsDigit(At(text, i)) THEN DigitsEnd(text, i + 1) ELSE i

IsHex(c) == IsDigit(c) \/ (c >= 97 /\ c <= 102) \/ (c >= 65 /\ c <= 70)

HexValue(c) == IF IsDigit(c) THEN c - 48 ELSE IF c >= 97 THEN c - 97 + 10 ELSE c - 65 + 10

SimpleEscape(e) ==
  CASE e = 98 -> 8
    [] e = 102 -> 12
    [] e = 110 -> 10
    [] e = 114 -> 13
    [] e = 116 -> 9
    [] OTHER -> e

\* the index of the first character from i on that is a quote, a backslash
\* or a control character, or is past the end of the text
PlainRunEnd(text, i) ==
  Let({j \in i..(Len(text) + 1) : At(text, j) < 32 \/ At(text, j) \in {34, 92}},
      LAMBDA stops : CHOOSE j \in stops : \A k \in stops : j <= k)

\* the characters of a string literal from index i (after the opening quote):
\* runs of plain characters, each ended by an escape or by the closing quote
RECURSIVE ParseStringBody(_, _, _)
ParseStringBody(text, i0, acc0) ==
  Let(PlainRunEnd(text, i0), LAMBDA i :
    Let(acc0 \o Slice(text, i0, i - 1), LAMBDA acc :
      LET c == At(text, i)
          e == At(text, i + 1)
      IN IF c < 32 THEN ParseFail
         ELSE IF c = 34 THEN ParseOk(JStr(acc), i + 1)
         ELSE IF e \in {34, 92, 47, 98, 102, 110, 114, 116}
         THEN ParseStringBody(text, i + 2, Append(acc, SimpleEscape(e)))
         ELSE IF e = 117 /\ (\A j \in 2..5 : IsHex(At(text, i + j)))
         THEN ParseStringBody(text, i + 6,
                Append(acc, HexValue(text[i + 2]) * 4096 + HexValue(text[i + 3]) * 256
                            + HexValue(text[i + 4]) * 16 + HexValue(text[i + 5])))
         ELSE ParseFail))

\* -? (0 | [1-9][0-9]*) (. [0-9]+)? ([eE] [+-]? [0-9]+)?
ParseNumber(text, i) ==
  LET neg == At(text, i) = 45
      d0 == IF neg THEN i + 1 ELSE i
  IN Let(IF At(text, d0) = 48 THEN d0 + 1 ELSE DigitsEnd(text, d0), LAMBDA d1 :
       LET hasFrac == At(text, d1) = 46
       IN Let(IF hasFrac THEN DigitsEnd(text, d1 + 1) ELSE d1, LAMBDA f1 :
            LET hasExp == At(text, f1) \in {101, 69}
                e0 == IF ~hasExp THEN f1
                      ELSE IF At(text, f1 + 1) \in {43, 45} THEN f1 + 2 ELSE f1 + 1
            IN Let(IF hasExp THEN DigitsEnd(text, e0) ELSE f1, LAMBDA e1 :
                 IF d1 = d0 \/ (hasFrac /\ f1 = d1 + 1) \/ (hasExp /\ e1 = e0)
                 THEN ParseFail
                 ELSE ParseOk([n |-> IF neg THEN -DigitsValue(Slice(text, d0, d1 - 1))
                                     ELSE DigitsValue(Slice(text, d0, d1 - 1)),
                               s |-> Slice(text, d1, e1 - 1),
                               t |-> "num"], e1))))

ParseLiteral(text, i, word, val) ==
  IF \A j \in 1..Len(word) : At(text, i + j - 1) = word[j]
  THEN ParseOk(val, i + Len(word))
  ELSE ParseFail

RECURSIVE ParseValue(_, _), ParseMembers(_, _, _), ParseElements(_, _, _)

ParseValue(text, i0) ==
  Let(SkipWs(text, i0), LAMBDA i :
    LET c == At(text, i)
    IN CASE c = 123 ->
              Let(SkipWs(text, i + 1), LAMBDA j :
                IF At(text, j) = 125 THEN ParseOk(JObj(<<>>), j + 1)
                ELSE ParseMembers(text, j, JObj(<<>>)))
         [] c = 91 ->
              Let(SkipWs(text, i + 1), LAMBDA j :
                IF At(text, j) = 93 THEN ParseOk(JArr(<<>>), j + 1)
                ELSE ParseElements(text, j, <<>>))
         [] c = 34 -> ParseStringBody(text, i + 1, <<>>)
         [] c = 45 \/ IsDigit(c) -> ParseNumber(text, i)
         [] c = 116 -> ParseLiteral(text, i, <<116, 114, 117, 101>>, JBool(TRUE))
         [] c = 102 -> ParseLiteral(text, i, <<102, 97, 108, 115, 101>>, JBool(FALSE))
         [] c = 110 -> ParseLiteral(text, i, <<110, 117, 108, 108>>, JNull)
         [] OTHER -> ParseFail)

\* "key" : value ( , "key" : value )* }   -- a repeated key keeps its first
\* place and takes the last value
ParseMembers(text, i, obj) ==
  IF At(text, i) # 34 THEN ParseFail
  ELSE
    Let(ParseStringBody(text, i + 1, <<>>), LAMBDA key :
      IF ~key.ok \/ At(text, SkipWs(text, key.i)) # 58 THEN ParseFail
      ELSE
        Let(ParseValue(text, SkipWs(text, key.i) + 1), LAMBDA val :
          IF ~val.ok THEN ParseFail
          ELSE
            Let(SkipWs(text, val.i), LAMBDA sep :
              Let(SetKey(obj, key.v.s, val.v), LAMBDA members :
                IF At(text, sep) = 125 THEN ParseOk(members, sep + 1)
                ELSE IF At(text, sep) = 44
                THEN ParseMembers(text, SkipWs(text, sep + 1), members)
                ELSE ParseFail))))

\* value ( , value )* ]
ParseElements(text, i, items) ==
  Let(ParseValue(text, i), LAMBDA val :
    IF ~val.ok THEN ParseFail
    ELSE
      Let(SkipWs(text, val.i), LAMBDA sep :
        Let(Append(items, val.v), LAMBDA elements :
          IF At(text, sep) = 93 THEN ParseOk(JArr(elements), sep + 1)
          ELSE IF At(text, sep) = 44 THEN ParseElements(text, sep + 1, elements)
          ELSE ParseFail)))

JSONparse(str) ==
  Let(str, LAMBDA text :
    Let(ParseValue(text, 1), LAMBDA r :
      IF r.ok /\ SkipWs(text, r.i) > Len(text)
      THEN [v |-> r.v, ok |-> TRUE]
      ELSE [v |-> Undefined, ok |-> FALSE]))

(***************************************************************************)
(* TextEncoder.encode: the UTF-8 bytes of a string (code units below       *)
(* 0xD800, so no surrogate pairs).                                         *)
(***************************************************************************)
Utf8Char(c) ==
  IF c < 128 THEN <<c>>
  ELSE IF c < 2048 THEN <<192 + (c \div 64), 128 + (c % 64)>>
  ELSE <<224 + (c \div 4096), 128 + ((c \div 64) % 64), 128 + (c % 64)>>

TextEncoderEncode(str) ==
  Let(str, LAMBDA s : Flatten([i \in 1..Len(s) |-> Utf8Char(s[i])]))

(***************************************************************************)
(* HMAC-SHA-256 (subtle.sign / subtle.verify with { name: 'HMAC', hash:    *)
(* 'SHA-256' }).  As in RFC 2104 the key is padded with zero bytes to the  *)
(* block size of the hash (keys longer than a block, which are hashed      *)
(* first, are outside the model) and the digest is a function of the       *)
(* padded key and the message.  SHA-256 itself is abstracted by a          *)
(* polynomial checksum modulo the prime 46337, which tells apart any two   *)
(* inputs that differ in one byte; its two bytes are repeated to fill the  *)
(* 32 bytes of the digest.                                                 *)
(***************************************************************************)
BlockSize == 64

DigestLen == 32

\* 257^k modulo 46337, by squaring
RECURSIVE PowMod(_)
PowMod(k) ==
  IF k = 0 THEN 1
  ELSE Let(PowMod(k \div 2), LAMBDA half :
         IF k % 2 = 0 THEN (half * half) % 46337
         ELSE (((half * half) % 46337) * 257) % 46337)

\* the checksum of bytes[lo..hi]: the sum of (bytes[i] + 1) * 257^(hi - i)
\* modulo 46337, by halves
RECURSIVE PolyHash(_, _, _)
PolyHash(bytes, lo, hi) ==
  IF lo > hi THEN 0
  ELSE IF lo = hi THEN bytes[lo] + 1
  ELSE (PolyHash(bytes, lo, (lo + hi) \div 2) * PowMod(hi - ((lo + hi) \div 2))
        + PolyHash(bytes, ((lo + hi) \div 2) + 1, hi)) % 46337

HmacKeyBlock(key) ==
  Let(key, LAMBDA k :
    IF Len(k) >= BlockSize THEN k ELSE k \o Repeat(0, BlockSize - Len(k)))

HmacSha256(key, msg) ==
  Let(HmacKeyBlock(key) \o msg, LAMBDA input :
    Let(PolyHash(input, 1, Len(input)), LAMBDA h :
      [i \in 1..DigestLen |-> IF (DigestLen - i) % 2 = 0 THEN h % 256 ELSE h \div 256]))

\* Variant that looks only at the length of the signature.
subtleVerifyLengthOnly(key, signature, data) == Len(signature) = DigestLen

\* subtle.verify('HMAC', key, signature, data)
subtleVerify(key, signature, data) == HmacSha256(key, data) = signature

(***************************************************************************)
(* The strings of lib/jwt.ts.                                              *)
(***************************************************************************)
STR_alg == <<97, 108, 103>>
STR_typ == <<116, 121, 112>>
STR_HS256 == <<72, 83, 50, 53, 54>>
STR_JWT == <<74, 87, 84>>
STR_iat == <<105, 97, 116>>
STR_jti == <<106, 116, 105>>
STR_iss == <<105, 115, 115>>
STR_aud == <<97, 117, 100>>
STR_sub == <<115, 117, 98>>
STR_exp == <<101, 120, 112>>
STR_nbf == <<110, 98, 102>>

\* what a call throws: `new Error(prefix + ": " + message)`; message is the
\* message of the error caught.  The DOMException of atob/btoa, the
\* SyntaxError of JSON.parse and the TypeError of a property read of null are
\* named by their error class (their message text is runtime-specific).
Thrown(prefix, message) == [prefix |-> prefix, message |-> message]

NoError == Thrown("", "")

(***************************************************************************)
(* parseExpirationTime: /^(\d+)([smhd])$/, parseInt(value) * units[unit].  *)
(***************************************************************************)
UnitSeconds(unit) ==
  CASE unit = 115 -> 1
    [] unit = 109 -> 60
    [] unit = 104 -> 3600
    [] unit = 100 -> 86400

parseExpirationTime(expiresIn) ==
  LET n == Len(expiresIn)
  IN IF n >= 2 /\ expiresIn[n] \in {115, 109, 104, 100}
        /\ (\A i \in 1..(n - 1) : IsDigit(expiresIn[i]))
     THEN [ok |-> TRUE,
           seconds |-> DigitsValue(Slice(expiresIn, 1, n - 1)) * UnitSeconds(expiresIn[n])]
     ELSE [ok |-> FALSE, seconds |-> 0]

(***************************************************************************)
(* getJWTSecret and `secret || getJWTSecret()`: an optional argument or    *)
(* environment variable is Undefined or a JSON string.                     *)
(***************************************************************************)
getJWTSecret(envSecret) ==
  IF ~Truthy(envSecret)
  THEN [s |-> <<>>, ok |-> FALSE]
  ELSE [s |-> envSecret.s, ok |-> TRUE]

\* Variant in which the process default would win over the argument:
\* process.env.JWT_SECRET || secret
ResolveSecretDefaultFirst(secret, envSecret) ==
  IF Truthy(envSecret) THEN getJWTSecret(envSecret)
  ELSE IF Truthy(secret) THEN [s |-> secret.s, ok |-> TRUE] ELSE getJWTSecret(envSecret)

\* secret || getJWTSecret()
ResolveSecret(secret, envSecret) ==
  IF Truthy(secret) THEN [s |-> secret.s, ok |-> TRUE] ELSE getJWTSecret(envSecret)

(***************************************************************************)
(* signJWT                                                                 *)
(***************************************************************************)
JwtHeader == JObj(<<Member(STR_alg, JStr(STR_HS256)), Member(STR_typ, JStr(STR_JWT))>>)

\* Variant in which the caller's iat and jti would survive:
\* { iat: now, jti: crypto.randomUUID(), ...payload }
IssuedClaimsCallerWins(payload, nowSec, uuid) ==
  SetKey(SetKey(payload, STR_iat,
                IF HasKey(payload, STR_iat) THEN Get(payload, STR_iat) ELSE JNum(nowSec)),
         STR_jti, IF HasKey(payload, STR_jti) THEN Get(payload, STR_jti) ELSE JStr(uuid))

\* { ...payload, iat: now, jti: crypto.randomUUID() }
IssuedClaims(payload, nowSec, uuid) ==
  SetKey(SetKey(payload, STR_iat, JNum(nowSec)), STR_jti, JStr(uuid))

\* Variant in which a claim of the caller's payload would survive the option:
\* if (options.<name> && !(claim in processedPayload)) ...
WithOptionUnlessPresent(claims, option, claim) ==
  IF Truthy(option) /\ ~HasKey(claims, claim) THEN SetKey(claims, claim, option) ELSE claims

\* if (options.<name>) processedPayload.<claim> = options.<name>
WithOption(claims, option, claim) ==
  IF Truthy(option) THEN SetKey(claims, claim, option) ELSE claims

StandardClaims(claims, options) ==
  WithOption(WithOption(WithOption(claims, options.issuer, STR_iss),
                        options.audience, STR_aud),
             options.subject, STR_sub)

SignResult(ok, tok, err) == [ok |-> ok, token |-> tok, error |-> err]

SignThrow(message) == SignResult(FALSE, <<>>, Thrown("Failed to sign JWT", message))

\* processedPayload after `if (options.expiresIn) processedPayload.exp = ...`
WithExpiry(claims, nowSec, seconds) == SetKey(claims, STR_exp, JNum(nowSec + seconds))

\* the token for the claims: header.payload.signature
Assemble(processedPayload, key) ==
  Let(base64UrlEncode(JSONstringify(JwtHeader)), LAMBDA encodedHeader :
    Let(base64UrlEncode(JSONstringify(processedPayload)), LAMBDA encodedPayload :
      IF ~encodedHeader.ok \/ ~encodedPayload.ok THEN SignThrow("InvalidCharacterError")
      ELSE
        Let(encodedHeader.s \o <<46>> \o encodedPayload.s, LAMBDA signingInput :
          Let(HmacSha256(TextEncoderEncode(key), TextEncoderEncode(signingInput)),
              LAMBDA signature :
            SignResult(TRUE, signingInput \o <<46>> \o base64UrlEncode(signature).s,
                       NoError)))))

signJWT(payload, secret, options, envSecret, nowSec, uuid) ==
  Let(ResolveSecret(secret, envSecret), LAMBDA jwtSecret :
    IF ~jwtSecret.ok THEN SignThrow("JWT_SECRET environment variable is required")
    ELSE
      Let(StandardClaims(IssuedClaims(payload, nowSec, uuid), options), LAMBDA claims :
        IF ~Truthy(options.expiresIn) THEN Assemble(claims, jwtSecret.s)
        ELSE
          Let(parseExpirationTime(options.expiresIn.s), LAMBDA duration :
            IF ~duration.ok THEN SignThrow("Invalid expiration time format")
            ELSE Assemble(WithExpiry(claims, nowSec, duration.seconds), jwtSecret.s))))

\* Variant that keeps at most three parts, as token.split('.', 3) would.
SplitAtMostThree(string) ==
  Let({i \in 1..Len(string) : string[i] = 46}, LAMBDA dots :
    IF Cardinality(dots) < 3 THEN
      LET cut(k) == IF k = 0 THEN 0
                    ELSE IF k > Cardinality(dots) THEN Len(string) + 1
                    ELSE CHOOSE d \in dots : Cardinality({e \in dots : e <= d}) = k
      IN [k \in 1..(Cardinality(dots) + 1) |-> Slice(string, cut(k - 1) + 1, cut(k) - 1)]
    ELSE
      LET first == CHOOSE d \in dots : \A e \in dots : d <= e
          second == CHOOSE d \in dots \ {first} : \A e \in dots \ {first} : d <= e
          third == CHOOSE d \in dots \ {first, second} :
                     \A e \in dots \ {first, second} : d <= e
      IN << Slice(string, 1, first - 1), Slice(string, first + 1, second - 1),
            Slice(string, second + 1, third - 1) >>)

(***************************************************************************)
(* token.split('.')                                                        *)
(***************************************************************************)
Split(string) ==
  Let(string, LAMBDA str :
    Let({i \in 1..Len(str) : str[i] = 46}, LAMBDA dots :
      \* the index of the k-th dot; 0 before the first part, Len + 1 after the last
      LET cut(k) == IF k = 0 THEN 0
                    ELSE IF k > Cardinality(dots) THEN Len(str) + 1
                    ELSE CHOOSE i \in dots : Cardinality({j \in dots : j < i}) = k - 1
      IN [k \in 1..(Cardinality(dots) + 1) |-> Slice(str, cut(k - 1) + 1, cut(k) - 1)]))

\* JSON.parse(base64UrlDecode(segment)): [ok, v, message]
DecodeSegment(segment) ==
  Let(base64UrlDecode(segment), LAMBDA text :
    IF ~text.ok THEN [v |-> Undefined, ok |-> FALSE, message |-> "InvalidCharacterError"]
    ELSE
      Let(JSONparse(text.s), LAMBDA json :
        IF ~json.ok THEN [v |-> Undefined, ok |-> FALSE, message |-> "SyntaxError"]
        ELSE [v |-> json.v, ok |-> TRUE, message |-> ""]))

(***************************************************************************)
(* verifyJWT.  The result records, beside the payload returned or the      *)
(* error thrown, how many segments had been handed to the decoder when the *)
(* call ended.                                                             *)
(***************************************************************************)
VerifyResult(ok, payload, err, decoded) ==
  [ok |-> ok, payload |-> payload, error |-> err, decoded |-> decoded]

VerifyThrow(message, decoded) ==
  VerifyResult(FALSE, Undefined, Thrown("Failed to verify JWT", message), decoded)

\* Variant that lets the algorithm "none" through.
AlgUnsupportedButNone(header) ==
  /\ NotStrictEqStr(Get(header, STR_alg), STR_HS256)
  /\ NotStrictEqStr(Get(header, STR_alg), <<110, 111, 110, 101>>)

\* header.alg !== 'HS256'
AlgUnsupported(header) == NotStrictEqStr(Get(header, STR_alg), STR_HS256)

\* options.algorithms && !options.algorithms.includes(header.alg)
AlgNotAllowed(options, header) ==
  /\ Truthy(options.algorithms)
  /\ ~(\E i \in 1..Len(options.algorithms.s) :
         JEq(options.algorithms.s[i], Get(header, STR_alg)))

\* the signature segment to bytes: '-' and '_' replaced, padded, atob
DecodeSignature(encodedSignature) ==
  Let(ReplaceChar(ReplaceChar(encodedSignature, 45, 43), 95, 47), LAMBDA signatureData :
    atob(signatureData \o Repeat(61, (4 - (Len(signatureData) % 4)) % 4)))

\* payload.exp && payload.exp < now
Expired(payload, nowSec) ==
  Truthy(Get(payload, STR_exp)) /\ LessThan(Get(payload, STR_exp), nowSec)

\* payload.nbf && payload.nbf > now
NotYetValid(payload, nowSec) ==
  Truthy(Get(payload, STR_nbf)) /\ GreaterThan(Get(payload, STR_nbf), nowSec)

\* options.issuer && payload.iss !== options.issuer
IssuerRejected(options, payload) ==
  Truthy(options.issuer) /\ NotStrictEqStr(Get(payload, STR_iss), options.issuer.s)

\* options.audience && payload.aud !== options.audience
AudienceRejected(options, payload) ==
  Truthy(options.audience) /\ NotStrictEqStr(Get(payload, STR_aud), options.audience.s)

\* the checks of the standard claims, after the signature was found valid
CheckClaims(payload, options, nowSec) ==
  IF payload.t = "null" THEN VerifyThrow("TypeError", 3)
  ELSE IF Expired(payload, nowSec) THEN VerifyThrow("JWT has expired", 3)
  ELSE IF NotYetValid(payload, nowSec) THEN VerifyThrow("JWT not yet valid", 3)
  ELSE IF IssuerRejected(options, payload) THEN VerifyThrow("Expected issuer", 3)
  ELSE IF AudienceRejected(options, payload) THEN VerifyThrow("Expected audience", 3)
  ELSE VerifyResult(TRUE, payload, NoError, 3)

\* the signature check: the HMAC of the two segments as they came
CheckSignature(parts, key) ==
  Let(DecodeSignature(parts[3]), LAMBDA signature :
    IF ~signature.ok THEN "InvalidCharacterError"
    ELSE IF ~subtleVerify(TextEncoderEncode(key), signature.s,
                          TextEncoderEncode(parts[1] \o <<46>> \o parts[2]))
    THEN "Invalid JWT signature"
    ELSE "")

verifyJWT(token, secret, options, envSecret, nowSec) ==
  Let(ResolveSecret(secret, envSecret), LAMBDA jwtSecret :
    IF ~jwtSecret.ok THEN VerifyThrow("JWT_SECRET environment variable is required", 0)
    ELSE
      Let(Split(token), LAMBDA parts :
        IF Len(parts) # 3 THEN VerifyThrow("Invalid JWT format", 0)
        ELSE
          Let(DecodeSegment(parts[1]), LAMBDA header :
            IF ~header.ok THEN VerifyThrow(header.message, 1)
            ELSE
              Let(DecodeSegment(parts[2]), LAMBDA payload :
                IF ~payload.ok THEN VerifyThrow(payload.message, 2)
                ELSE IF header.v.t = "null" THEN VerifyThrow("TypeError", 2)
                ELSE IF AlgUnsupported(header.v)
                THEN VerifyThrow("Unsupported algorithm", 2)
                ELSE IF AlgNotAllowed(options, header.v)
                THEN VerifyThrow("Algorithm not allowed", 2)
                ELSE
                  Let(CheckSignature(parts, jwtSecret.s), LAMBDA failure :
                    IF failure # "" THEN VerifyThrow(failure, 3)
                    ELSE CheckClaims(payload.v, options, nowSec))))))

(***************************************************************************)
(* decodeJWTUnsafe                                                         *)
(***************************************************************************)
DecodeResult(ok, header, payload, signature, err, decoded) ==
  [ok |-> ok, signature |-> signature, payload |-> payload, error |-> err,
   decoded |-> decoded, header |-> header]

DecodeThrow(message, decoded) ==
  DecodeResult(FALSE, Undefined, Undefined, <<>>,
               Thrown("Failed to decode JWT", message), decoded)

\* Variant that also rejects a header whose alg is not "HS256".
decodeJWTUnsafeCheckingAlgorithm(token) ==
  Let(Split(token), LAMBDA parts :
    IF Len(parts) # 3 THEN DecodeThrow("Invalid JWT format", 0)
    ELSE
      Let(DecodeSegment(parts[1]), LAMBDA header :
        IF ~header.ok THEN DecodeThrow(header.message, 1)
        ELSE
          Let(DecodeSegment(parts[2]), LAMBDA payload :
            IF ~payload.ok THEN DecodeThrow(payload.message, 2)
            ELSE IF NotStrictEqStr(Get(header.v, STR_alg), STR_HS256)
            THEN DecodeThrow("Unsupported algorithm", 2)
            ELSE DecodeResult(TRUE, header.v, payload.v, parts[3], NoError, 2))))

decodeJWTUnsafe(token) ==
  Let(Split(token), LAMBDA parts :
    IF Len(parts) # 3 THEN DecodeThrow("Invalid JWT format", 0)
    ELSE
      Let(DecodeSegment(parts[1]), LAMBDA header :
        IF ~header.ok THEN DecodeThrow(header.message, 1)
        ELSE
          Let(DecodeSegment(parts[2]), LAMBDA payload :
            IF ~payload.ok THEN DecodeThrow(payload.message, 2)
            ELSE DecodeResult(TRUE, header.v, payload.v, parts[3], NoError, 2))))

(***************************************************************************)
(* isJWTExpired                                                            *)
(***************************************************************************)
ExpiredResult(ok, expired, err) == [ok |-> ok, error |-> err, expired |-> expired]

ExpiredThrow(prefix, message) == ExpiredResult(FALSE, FALSE, Thrown(prefix, message))

isJWTExpired(token, nowSec) ==
  Let(decodeJWTUnsafe(token), LAMBDA unsafe :
    IF ~unsafe.ok
    THEN ExpiredThrow("Failed to check JWT expiration: Failed to decode JWT",
                      unsafe.error.message)
    ELSE IF unsafe.payload.t = "null"
    THEN ExpiredThrow("Failed to check JWT expiration", "TypeError")
    ELSE IF ~Truthy(Get(unsafe.payload, STR_exp))
    THEN ExpiredResult(TRUE, FALSE, NoError)
    ELSE ExpiredResult(TRUE, LessThan(Get(unsafe.payload, STR_exp), nowSec), NoError))

(***************************************************************************)
(* The error kinds of the engine, by the message of the error thrown.      *)
(***************************************************************************)
ErrorKind(err) ==
  CASE err.message = "JWT_SECRET environment variable is required" -> "MissingSecret"
    [] err.message = "Invalid JWT format" -> "MalformedToken"
    [] err.message \in {"InvalidCharacterError", "SyntaxError"} ->
         IF err.prefix = "Failed to sign JWT" THEN "Unexpected" ELSE "MalformedSegment"
    [] err.message = "Unsupported algorithm" -> "UnsupportedAlgorithm"
    [] err.message = "Algorithm not allowed" -> "AlgorithmNotAllowed"
    [] err.message = "Invalid JWT signature" -> "InvalidSignature"
    [] err.message = "JWT has expired" -> "TokenExpired"
    [] err.message = "JWT not yet valid" -> "TokenNotYetValid"
    [] err.message = "Expected issuer" -> "IssuerMismatch"
    [] err.message = "Expected audience" -> "AudienceMismatch"
    [] err.message = "Invalid expiration time format" -> "InvalidDuration"
    [] err.message = "" -> "None"
    [] OTHER -> "Unexpected"

(***************************************************************************)
(* Inputs.  The callers of the engine pass payloads, secrets and options;  *)
(* the environment holds JWT_SECRET or not; the clock gives the seconds    *)
(* since the epoch (Math.floor(Date.now() / 1000)); crypto.randomUUID      *)
(* draws an identifier.                                                    *)
(***************************************************************************)
StartTime == 5

MaxTicks == 2

STR_k == <<107>>
STR_j == <<106>>
STR_a == <<97>>
STR_b == <<98>>
STR_cid == <<99, 105, 100>>

Uuids == <<<<117, 49>>, <<117, 50>>>>

\* process.env.JWT_SECRET: unset, or "k"
EnvSecrets == <<Undefined, JStr(STR_k)>>

\* the secret argument: omitted, "", "k", "j", "k\0"
Secrets == <<Undefined, JStr(<<>>), JStr(STR_k), JStr(STR_j), JStr(<<107, 0>>)>>

\* the secrets of the signing and of the verifying callers of Spec
SignSecrets == <<Undefined, JStr(<<>>), JStr(STR_k)>>

VerifySecrets == <<Undefined, JStr(STR_k), JStr(STR_j)>>

\* {exp:0}, {cid:"A"}, {cid:"A",iat:99,jti:"x"}, {nbf:6}, {cid:"€"}, {iss:"b",exp:4}
Payloads ==
  << JObj(<<Member(STR_exp, JNum(0))>>),
     JObj(<<Member(STR_cid, JStr(<<65>>))>>),
     JObj(<<Member(STR_cid, JStr(<<65>>)), Member(STR_iat, JNum(99)),
            Member(STR_jti, JStr(<<120>>))>>),
     JObj(<<Member(STR_nbf, JNum(StartTime + 1))>>),
     JObj(<<Member(STR_cid, JStr(<<8364>>))>>),
     JObj(<<Member(STR_iss, JStr(STR_b)), Member(STR_exp, JNum(StartTime - 1))>>) >>

SignOptions(issuer, audience, subject, expiresIn) ==
  [expiresIn |-> expiresIn, issuer |-> issuer, audience |-> audience, subject |-> subject]

\* {}, {issuer:"a"}, {issuer:""}, {expiresIn:"1s"}, {expiresIn:"1x"},
\* {issuer:"a", audience:"b", subject:"a", expiresIn:"1m"}
SignOptionsList ==
  << SignOptions(Undefined, Undefined, Undefined, Undefined),
     SignOptions(JStr(STR_a), Undefined, Undefined, Undefined),
     SignOptions(JStr(<<>>), Undefined, Undefined, Undefined),
     SignOptions(Undefined, Undefined, Undefined, JStr(<<49, 115>>)),
     SignOptions(Undefined, Undefined, Undefined, JStr(<<49, 120>>)),
     SignOptions(JStr(STR_a), JStr(STR_b), JStr(STR_a), JStr(<<49, 109>>)) >>

VerifyOptions(issuer, audience, algorithms) ==
  [issuer |-> issuer, audience |-> audience, algorithms |-> algorithms]

NoVerifyOptions == VerifyOptions(Undefined, Undefined, Undefined)

\* {}, {issuer:"a"}, {issuer:"b"}, {issuer:""}, {audience:"b"},
\* {issuer:"a", algorithms:["HS256"]}, {algorithms:[]}
VerifyOptionsList ==
  << NoVerifyOptions,
     VerifyOptions(JStr(STR_a), Undefined, Undefined),
     VerifyOptions(JStr(STR_b), Undefined, Undefined),
     VerifyOptions(JStr(<<>>), Undefined, Undefined),
     VerifyOptions(Undefined, JStr(STR_b), Undefined),
     VerifyOptions(JStr(STR_a), Undefined, JArr(<<JStr(STR_HS256)>>)),
     VerifyOptions(Undefined, Undefined, JArr(<<>>)) >>

(***************************************************************************)
(* State: the environment and the clock, the token in circulation and      *)
(* where it comes from, the signJWT call that made it and the last call    *)
(* that read it; the run of the verify script and the calls of signJWT and *)
(* verifyJWT that are in flight together.                                  *)
(***************************************************************************)
VARIABLES env, now, token, origin, signed, call, cli, tasks

vars == <<env, now, token, origin, signed, call, cli, tasks>>

NoSign == [called |-> FALSE]

NoCall == [op |-> "none"]

\* the verify script has not been started
NoCli == [pc |-> "idle"]

\* the callers that may have a call in flight at the same time
Callers == {1, 2}

IdleTask == [pc |-> "idle"]

\* no call is in flight
NoTasks == [c \in Callers |-> IdleTask]

Init ==
  /\ \E e \in 1..Len(EnvSecrets) : env = EnvSecrets[e]
  /\ now = StartTime
  /\ token = <<>>
  /\ origin = "none"
  /\ signed = NoSign
  /\ call = NoCall
  /\ cli = NoCli
  /\ tasks = NoTasks

\* the clock advances while a token circulates and is not yet read
Tick ==
  /\ origin # "none"
  /\ call = NoCall
  /\ now < StartTime + MaxTicks
  /\ now' = now + 1
  /\ UNCHANGED <<env, token, origin, signed, call, cli, tasks>>

\* a caller signs a payload; the token, if one is returned, circulates
Sign(payload, secret, options, uuid) ==
  /\ origin = "none"
  /\ \E result \in {signJWT(payload, secret, options, env, now, uuid)} :
       /\ signed' = [secret |-> secret, payload |-> payload, uuid |-> uuid,
                     options |-> options, now |-> now, called |-> TRUE, result |-> result]
       /\ token' = result.token
       /\ origin' = IF result.ok THEN "signed" ELSE "failed"
  /\ UNCHANGED <<env, now, call, cli, tasks>>

\* a caller verifies the token in circulation
Verify(secret, options) ==
  /\ origin \in {"signed", "tampered", "presented"}
  /\ call = NoCall
  /\ call' = [secret |-> secret, options |-> options, token |-> token,
              now |-> now, op |-> "verifyJWT",
              result |-> verifyJWT(token, secret, options, env, now)]
  /\ UNCHANGED <<env, now, token, origin, signed, cli, tasks>>

\* a caller inspects the token in circulation
Decode ==
  /\ origin \in {"signed", "tampered", "presented"}
  /\ call = NoCall
  /\ call' = [token |-> token, now |-> now, op |-> "decodeJWTUnsafe",
              result |-> decodeJWTUnsafe(token)]
  /\ UNCHANGED <<env, now, token, origin, signed, cli, tasks>>

\* a caller asks whether the token in circulation is expired
IsExpired ==
  /\ origin \in {"signed", "tampered", "presented"}
  /\ call = NoCall
  /\ call' = [token |-> token, now |-> now, op |-> "isJWTExpired",
              result |-> isJWTExpired(token, now)]
  /\ UNCHANGED <<env, now, token, origin, signed, cli, tasks>>

(***************************************************************************)
(* Spec: callers sign payloads and verify or inspect the tokens returned.  *)
(***************************************************************************)
SignAny ==
  \E p \in 1..Len(Payloads), s \in 1..Len(SignSecrets),
     o \in 1..Len(SignOptionsList), u \in 1..Len(Uuids) :
    Sign(Payloads[p], SignSecrets[s], SignOptionsList[o], Uuids[u])

VerifyAny ==
  \E s \in 1..Len(VerifySecrets), o \in 1..Len(VerifyOptionsList) :
    Verify(VerifySecrets[s], VerifyOptionsList[o])

Next == SignAny \/ Tick \/ VerifyAny \/ Decode \/ IsExpired

Spec == Init /\ [][Next]_vars

(***************************************************************************)
(* Secret isolation: sign and verify with every pair of the secrets,       *)
(* among them "k" and "k" followed by a zero byte.                         *)
(***************************************************************************)
SignWithAnySecret ==
  \E p \in {2, 3}, s \in 1..Len(Secrets), u \in 1..Len(Uuids) :
    Sign(Payloads[p], Secrets[s], SignOptionsList[1], Uuids[u])

VerifyWithAnySecret ==
  \E s \in 1..Len(Secrets), o \in {1, 3, 7} : Verify(Secrets[s], VerifyOptionsList[o])

NextSecrets == SignWithAnySecret \/ VerifyWithAnySecret

SpecSecrets == Init /\ [][NextSecrets]_vars

(***************************************************************************)
(* Tampering: one character of a segment of a signed token is replaced by  *)
(* a different character, and the result is verified with the signing      *)
(* secret.                                                                 *)
(***************************************************************************)
\* The characters put in place of one of the token: A-Z a-z 0-9 - _ and
\* + / = space ! .
IsTamperChar(c) ==
  \/ (c >= 65 /\ c <= 90) \/ (c >= 97 /\ c <= 122) \/ (c >= 48 /\ c <= 57)
  \/ c \in {45, 95, 43, 47, 61, 32, 33, 46}

Tamper(i, c) ==
  /\ origin = "signed"
  /\ call = NoCall
  /\ i \in 1..Len(token)
  /\ token[i] # 46
  /\ token[i] # c
  /\ token' = [token EXCEPT ![i] = c]
  /\ origin' = "tampered"
  /\ UNCHANGED <<env, now, signed, call, cli, tasks>>

SignForTamper ==
  Sign(Payloads[2], JStr(STR_k), SignOptionsList[1], Uuids[1])

TamperAny ==
  /\ origin = "signed"
  /\ \E i \in 1..Len(token), c \in 32..122 : IsTamperChar(c) /\ Tamper(i, c)

VerifyAsSigner == origin = "tampered" /\ Verify(signed.secret, NoVerifyOptions)

NextTamper == SignForTamper \/ TamperAny \/ VerifyAsSigner

SpecTamper == Init /\ [][NextTamper]_vars

(***************************************************************************)
(* Presented tokens: strings that did not come from signJWT.               *)
(***************************************************************************)
Segment(text) == base64UrlEncode(text).s

\* {"alg":"none","typ":"JWT"}, {"alg":"HS384"}, the engine's header, {},
\* null, no characters at all, 5, and "HS256"
HeaderSegments ==
  << Segment(JSONstringify(JObj(<<Member(STR_alg, JStr(<<110, 111, 110, 101>>)),
                                  Member(STR_typ, JStr(STR_JWT))>>))),
     Segment(JSONstringify(JObj(<<Member(STR_alg, JStr(<<72, 83, 51, 56, 52>>))>>))),
     Segment(JSONstringify(JwtHeader)),
     Segment(JSONstringify(JObj(<<>>))),
     Segment(JSONstringify(JNull)),
     <<>>,
     Segment(JSONstringify(JNum(5))),
     Segment(JSONstringify(JStr(STR_HS256))) >>

\* {"cid":"A"}, no characters at all, "!", {"exp":0}, {"exp":4}, {"exp":5},
\* {"exp":6}, 5, null, [7]
PayloadSegments ==
  << Segment(JSONstringify(JObj(<<Member(STR_cid, JStr(<<65>>))>>))), <<>>, <<33>>,
     Segment(JSONstringify(JObj(<<Member(STR_exp, JNum(0))>>))),
     Segment(JSONstringify(JObj(<<Member(STR_exp, JNum(StartTime - 1))>>))),
     Segment(JSONstringify(JObj(<<Member(STR_exp, JNum(StartTime))>>))),
     Segment(JSONstringify(JObj(<<Member(STR_exp, JNum(StartTime + 1))>>))),
     Segment(JSONstringify(JNum(5))),
     Segment(JSONstringify(JNull)),
     Segment(JSONstringify(JArr(<<JNum(7)>>))) >>

\* the signature segment: empty, "!", or the HMAC of the two segments under "k"
Crafted(h, p, sg) ==
  Let(HeaderSegments[h] \o <<46>> \o PayloadSegments[p], LAMBDA signingInput :
    signingInput \o <<46>>
      \o (IF sg = 1 THEN <<>>
          ELSE IF sg = 2 THEN <<33>>
          ELSE base64UrlEncode(HmacSha256(TextEncoderEncode(STR_k),
                                          TextEncoderEncode(signingInput))).s))

\* "", "a", "a.b", "a.b.c.d", "a..c", "a.b."
LiteralTokens ==
  << <<>>, <<97>>, <<97, 46, 98>>, <<97, 46, 98, 46, 99, 46, 100>>,
     <<97, 46, 46, 99>>, <<97, 46, 98, 46>> >>

Present(t) ==
  /\ origin = "none"
  /\ token' = t
  /\ origin' = "presented"
  /\ UNCHANGED <<env, now, signed, call, cli, tasks>>

PresentCrafted ==
  \E h \in 1..Len(HeaderSegments), p \in 1..Len(PayloadSegments), sg \in 1..3 :
    Present(Crafted(h, p, sg))

PresentLiteral == \E i \in 1..Len(LiteralTokens) : Present(LiteralTokens[i])

NextPresent == PresentCrafted \/ PresentLiteral \/ VerifyAny \/ Decode \/ IsExpired

SpecPresent == Init /\ [][NextPresent]_vars

(***************************************************************************)
(* The HTTP routes of src/index.ts.  A request body is the text that       *)
(* c.req.json() parses; a response is its status and the members of its    *)
(* JSON body (error is '' and the other members undefined where the        *)
(* response has none; verified, in the response of /verify-jwt, is true    *)
(* where success is).                                                      *)
(***************************************************************************)
STR_cert_tools == <<99, 101, 114, 116, 45, 116, 111, 111, 108, 115>>
STR_24h == <<50, 52, 104>>
STR_jwt == <<106, 119, 116>>

Response(status, err, message, jwt, payload) ==
  [message |-> message, payload |-> payload, error |-> err, status |-> status,
   jwt |-> jwt, success |-> status = 200]

\* { issuer: 'cert-tools', expiresIn: '24h' }
GenerateOptions == SignOptions(JStr(STR_cert_tools), Undefined, Undefined, JStr(STR_24h))

\* { issuer: 'cert-tools', algorithms: ['HS256'] }
VerifyRouteOptions ==
  VerifyOptions(JStr(STR_cert_tools), Undefined, JArr(<<JStr(STR_HS256)>>))

\* !body || typeof body !== 'object'
NotAnObject(body) == ~Truthy(body) \/ body.t \notin {"obj", "arr"}

\* { ...body }: the own properties of an object; of an array (of fewer than
\* ten items), its indices
Spread(body) ==
  IF body.t = "arr"
  THEN JObj([i \in 1..Len(body.s) |-> Member(<<47 + i>>, body.s[i])])
  ELSE body

\* { ...body, iat: Math.floor(Date.now() / 1000),
\*   exp: Math.floor(Date.now() / 1000) + (24 * 60 * 60) }
GeneratePayload(body, iatRead, expRead) ==
  SetKey(SetKey(Spread(body), STR_iat, JNum(iatRead)), STR_exp,
         JNum(expRead + 24 * 60 * 60))

\* the response of POST /generate-jwt, given the parsed body, the payload
\* made of it and what signJWT did with the payload
GenerateResponse(parsed, payload, sign) ==
  IF ~parsed.ok
  THEN Response(500, "Failed to generate JWT", Thrown("", "SyntaxError"), Undefined,
                Undefined)
  ELSE IF NotAnObject(parsed.v)
  THEN Response(400, "Invalid JSON payload", NoError, Undefined, Undefined)
  ELSE IF ~sign.ok
  THEN Response(500, "Failed to generate JWT", sign.error, Undefined, Undefined)
  ELSE Response(200, "", NoError, JStr(sign.token), payload)

\* verifyJWT(body.jwt, ...): a jwt that is not a string has no split method,
\* which is found after the secret is resolved
verifyJWTOfValue(jwt, secret, options, envSecret, nowSec) ==
  IF jwt.t = "str" THEN verifyJWT(jwt.s, secret, options, envSecret, nowSec)
  ELSE IF ~ResolveSecret(secret, envSecret).ok
  THEN VerifyThrow("JWT_SECRET environment variable is required", 0)
  ELSE VerifyThrow("TypeError", 0)

NotVerified == VerifyResult(FALSE, Undefined, NoError, 0)

\* POST /verify-jwt: what verifyJWT did, if the route reached it, and the
\* response
VerifyRoute(reached, result, response) ==
  [result |-> result, reached |-> reached, response |-> response]

postVerifyJwt(text, binding, envSecret, nowSec) ==
  Let(JSONparse(text), LAMBDA parsed :
    IF ~parsed.ok
    THEN VerifyRoute(FALSE, NotVerified,
                     Response(500, "Failed to verify JWT", Thrown("", "SyntaxError"),
                              Undefined, Undefined))
    ELSE IF IsNullish(parsed.v)
    THEN VerifyRoute(FALSE, NotVerified,
                     Response(500, "Failed to verify JWT", Thrown("", "TypeError"),
                              Undefined, Undefined))
    ELSE IF ~Truthy(Get(parsed.v, STR_jwt))
    THEN VerifyRoute(FALSE, NotVerified,
                     Response(400, "No JWT provided", NoError, Undefined, Undefined))
    ELSE
      Let(verifyJWTOfValue(Get(parsed.v, STR_jwt), binding, VerifyRouteOptions,
                           envSecret, nowSec),
          LAMBDA result :
        IF ~result.ok
        THEN VerifyRoute(TRUE, result,
                         Response(500, "Failed to verify JWT", result.error, Undefined,
                                  Undefined))
        ELSE VerifyRoute(TRUE, result,
                         Response(200, "", NoError, Get(parsed.v, STR_jwt),
                                  result.payload))))

\* {"cid":"A"}, {"iss":"b","jti":"x","iat":1}, {}, [7], null, 5, "x",
\* {"cid":"€"}
GenerateBodies ==
  << JObj(<<Member(STR_cid, JStr(<<65>>))>>),
     JObj(<<Member(STR_iss, JStr(STR_b)), Member(STR_jti, JStr(<<120>>)),
            Member(STR_iat, JNum(1))>>),
     JObj(<<>>),
     JArr(<<JNum(7)>>),
     JNull,
     JNum(5),
     JStr(<<120>>),
     JObj(<<Member(STR_cid, JStr(<<8364>>))>>) >>

\* the text of request body i; the text after the last body is "{", which is
\* not JSON
RequestText(bodies, i) == IF i > Len(bodies) THEN <<123>> ELSE JSONstringify(bodies[i])

\* POST /generate-jwt: the signJWT call of the route, if the route reached
\* it, and the response.  The clock is read three times, for iat, for exp
\* and by signJWT.
postGenerateJwt(text, binding, envSecret, iatRead, expRead, signRead, uuid) ==
  Let(JSONparse(text), LAMBDA parsed :
    IF ~parsed.ok \/ NotAnObject(parsed.v)
    THEN [called |-> FALSE,
          response |-> GenerateResponse(parsed, Undefined, SignThrow(""))]
    ELSE
      Let(GeneratePayload(parsed.v, iatRead, expRead), LAMBDA payload :
        Let(signJWT(payload, binding, GenerateOptions, envSecret, signRead, uuid),
            LAMBDA result :
          [secret |-> binding, payload |-> payload, uuid |-> uuid,
           options |-> GenerateOptions, now |-> signRead, called |-> TRUE,
           result |-> result,
           response |-> GenerateResponse(parsed, payload, result)])))

\* A client posts a body to /generate-jwt; the clock may advance by a second
\* between two of its reads.
PostGenerateJwt(text, binding, uuid, d1, d2) ==
  /\ origin = "none"
  /\ \E route \in {postGenerateJwt(text, binding, env, now, now + d1, now + d1 + d2,
                                   uuid)} :
       /\ signed' = route
       /\ token' = IF route.called THEN route.result.token ELSE <<>>
       /\ origin' = IF route.called /\ route.result.ok THEN "signed" ELSE "failed"
  /\ now' = now + d1 + d2
  /\ UNCHANGED <<env, call, cli, tasks>>

PostGenerateJwtAny ==
  /\ origin = "none"
  /\ \E b \in 1..(Len(GenerateBodies) + 1), s \in 1..Len(EnvSecrets),
        u \in 1..Len(Uuids), d1 \in 0..1, d2 \in 0..1 :
       PostGenerateJwt(RequestText(GenerateBodies, b), EnvSecrets[s], Uuids[u], d1, d2)

\* {"jwt": <the token in circulation>}, {}, null, {"jwt":5}, {"jwt":""}, 5
VerifyBodies(tok) ==
  << JObj(<<Member(STR_jwt, JStr(tok))>>),
     JObj(<<>>),
     JNull,
     JObj(<<Member(STR_jwt, JNum(5))>>),
     JObj(<<Member(STR_jwt, JStr(<<>>))>>),
     JNum(5) >>

\* A client posts a body to /verify-jwt; the binding is the one of the
\* deployment that generated the token, if one did.
PostVerifyJwt(text, binding) ==
  /\ call = NoCall
  /\ signed.called => binding = signed.secret
  /\ \E route \in {postVerifyJwt(text, binding, env, now)} :
       call' = [secret |-> binding, options |-> VerifyRouteOptions, token |-> token,
                now |-> now, op |-> "POST /verify-jwt", result |-> route.result,
                reached |-> route.reached, response |-> route.response,
                request |-> text]
  /\ UNCHANGED <<env, now, token, origin, signed, cli, tasks>>

PostVerifyJwtAny ==
  /\ call = NoCall
  /\ \E b \in 1..(Len(VerifyBodies(token)) + 1), s \in 1..Len(EnvSecrets) :
       /\ b = 1 => origin \in {"signed", "presented"}
       /\ PostVerifyJwt(RequestText(VerifyBodies(token), b), EnvSecrets[s])

NextHttp == PostGenerateJwtAny \/ PresentCrafted \/ PresentLiteral \/ PostVerifyJwtAny

SpecHttp == Init /\ [][NextHttp]_vars

(***************************************************************************)
(* scripts/verify-qr.ts: the verify script.  A run takes the command line, *)
(* the text file and the image it names; it stops at its awaits (reading   *)
(* the image, calling the API) and ends with an exit code, the error it    *)
(* printed, if any, and the API's answer, if it asked.                     *)
(***************************************************************************)
STR_file == <<45, 45, 102, 105, 108, 101>>
STR_qr_image == <<45, 45, 113, 114, 45, 105, 109, 97, 103, 101>>
STR_interactive == <<45, 45, 105, 110, 116, 101, 114, 97, 99, 116, 105, 118, 101>>

\* String.prototype.trim: white space and line terminators
IsTrimSpace(c) == c \in {9, 10, 11, 12, 13, 32, 160, 5760, 8232, 8233, 8239, 8287, 12288,
                         65279} \/ (c >= 8192 /\ c <= 8202)

Trim(string) ==
  Let(string, LAMBDA str :
    Let({i \in 1..Len(str) : ~IsTrimSpace(str[i])}, LAMBDA kept :
      IF kept = {} THEN <<>>
      ELSE Slice(str, CHOOSE i \in kept : \A j \in kept : i <= j,
                 CHOOSE i \in kept : \A j \in kept : i >= j)))

\* Variant that only counts the parts: parts.length === 3
isValidJWTFormatCountOnly(jwt) == Len(Split(jwt)) = 3

\* parts.length === 3 && parts.every(part => part.length > 0)
isValidJWTFormat(jwt) ==
  Let(Split(jwt), LAMBDA parts :
    Len(parts) = 3 /\ \A i \in 1..Len(parts) : Len(parts[i]) > 0)

Extracted(ok, jwt, err) == [ok |-> ok, error |-> err, jwt |-> jwt]

\* a text file: whether fs.readFileSync can read it, and its content
TextFile(readable, content) == [readable |-> readable, content |-> content]

extractJWTFromFile(file) ==
  IF ~file.readable
  THEN Extracted(FALSE, <<>>, Thrown("Failed to read JWT from file", "ENOENT"))
  ELSE
    Let(Trim(file.content), LAMBDA content :
      Let(Split(content), LAMBDA parts :
        IF Len(parts) = 3 /\ \A i \in 1..Len(parts) : Len(parts[i]) > 0
        THEN Extracted(TRUE, content, NoError)
        ELSE Extracted(FALSE, <<>>,
                       Thrown("Failed to read JWT from file",
                              "File does not contain a valid JWT format"))))

\* an image file: whether it exists, whether Jimp can read it, and the data
\* of the QR code that the first successful jsQR attempt finds in it
\* (undefined when no attempt finds a code)
ImageFile(exists, readable, code) ==
  [readable |-> readable, exists |-> exists, code |-> code]

\* extractJWTFromQRImage up to its await of Jimp.read
ImageMissing(image) == ~image.exists

\* extractJWTFromQRImage from Jimp.read on
extractJWTFromQRImage(image) ==
  IF ~image.exists
  THEN Extracted(FALSE, <<>>,
                 Thrown("Failed to extract JWT from QR image", "Image file not found"))
  ELSE IF ~image.readable
  THEN Extracted(FALSE, <<>>, Thrown("Failed to extract JWT from QR image", "JimpError"))
  ELSE IF IsNullish(image.code)
  THEN Extracted(FALSE, <<>>,
                 Thrown("Failed to extract JWT from QR image",
                        "No QR code found in the image"))
  ELSE
    Let(Trim(image.code.s), LAMBDA jwt :
      IF ~isValidJWTFormat(jwt)
      THEN Extracted(FALSE, <<>>,
                     Thrown("Failed to extract JWT from QR image",
                            "QR code does not contain a valid JWT format"))
      ELSE Extracted(TRUE, jwt, NoError))

\* args[i - 1] of process.argv.slice(2), undefined past the end
Arg(args, i) == IF i <= Len(args) THEN JStr(args[i]) ELSE Undefined

\* the branch main takes for the command line
Branch(args) ==
  IF Len(args) = 0 THEN "usage"
  ELSE IF args[1] = STR_file /\ Truthy(Arg(args, 2)) THEN "file"
  ELSE IF args[1] = STR_qr_image /\ Truthy(Arg(args, 2)) THEN "qr-image"
  ELSE IF args[1] = STR_interactive THEN "interactive"
  ELSE "argument"

\* the state of a run: where it stands, its inputs, the candidate text, the
\* body it sent to the API (asked says whether it sent one), what it printed
\* as error, its exit code and the API's answer
Run(pc, inputs, jwt, asked, request, err, code, answer) ==
  [error |-> err, pc |-> pc, jwt |-> jwt, request |-> request, inputs |-> inputs,
   asked |-> asked, answer |-> answer, exit |-> code]

Inputs(args, file, image) == [file |-> file, image |-> image, args |-> args]

NoAnswer == Response(0, "", NoError, Undefined, Undefined)

\* the run has ended without asking the API
Ended(inputs, jwt, err, code) == Run("done", inputs, jwt, FALSE, <<>>, err, code, NoAnswer)

\* main from `if (!isValidJWTFormat(jwt))` to the fetch of verifyJWT(jwt)
Validate(inputs, jwt) ==
  IF ~isValidJWTFormat(jwt)
  THEN Ended(inputs, jwt, Thrown("", "Invalid JWT format. Expected format: xxx.yyy.zzz"), 0)
  ELSE Run("fetch", inputs, jwt, TRUE,
           JSONstringify(JObj(<<Member(STR_jwt, JStr(jwt))>>)), NoError, 0, NoAnswer)

\* main after an extraction: the catch block prints the error and exits 1
AfterExtraction(inputs, extracted) ==
  IF ~extracted.ok THEN Ended(inputs, <<>>, extracted.error, 1)
  ELSE Validate(inputs, extracted.jwt)

\* main up to its first await
main(inputs) ==
  Let(Branch(inputs.args), LAMBDA branch :
    IF branch \in {"usage", "interactive"} THEN Ended(inputs, <<>>, NoError, 0)
    ELSE IF branch = "file" THEN AfterExtraction(inputs, extractJWTFromFile(inputs.file))
    ELSE IF branch = "argument" THEN Validate(inputs, inputs.args[1])
    ELSE IF ImageMissing(inputs.image)
    THEN AfterExtraction(inputs, extractJWTFromQRImage(inputs.image))
    ELSE Run("read", inputs, <<>>, FALSE, <<>>, NoError, 0, NoAnswer))

\* verifyJWT(jwt) of the script and what main does with its outcome: fetch
\* rejects, or the API answers; an answer that is not 2xx is thrown as an
\* HTTP error; main prints the result or the error
AfterFetch(run, reachable, answer) ==
  IF ~reachable
  THEN Run("done", run.inputs, run.jwt, TRUE, run.request,
           Thrown("Failed to call API", "fetch failed"), 1, NoAnswer)
  ELSE IF answer.status \notin 200..299
  THEN Run("done", run.inputs, run.jwt, TRUE, run.request,
           Thrown("Failed to call API", "HTTP error! status"), 1, answer)
  ELSE Run("done", run.inputs, run.jwt, TRUE, run.request, NoError, 0, answer)

\* the texts given to the script: "", "a", "a.b", "a.b.c.d", "a..c", "a.b.",
\* "a.b.c", " a.b.c" and a line feed, a token with a valid signature and no
\* issuer, "a.b. ", ".b.c", a token as /generate-jwt makes them
NumCliTexts == 12

CliText(i) ==
  IF i <= Len(LiteralTokens) THEN LiteralTokens[i]
  ELSE IF i = 7 THEN <<97, 46, 98, 46, 99>>
  ELSE IF i = 8 THEN <<32, 97, 46, 98, 46, 99, 10>>
  ELSE IF i = 9 THEN Crafted(3, 1, 3)
  ELSE IF i = 10 THEN <<97, 46, 98, 46, 32>>
  ELSE IF i = 11 THEN <<46, 98, 46, 99>>
  ELSE signJWT(Payloads[2], JStr(STR_k), GenerateOptions, Undefined, StartTime,
               Uuids[1]).token

\* the command lines: none, a text, --file f, --file, --qr-image q,
\* --qr-image, --interactive
CliArgs(form, text) ==
  CASE form = 1 -> <<>>
    [] form = 2 -> <<text>>
    [] form = 3 -> <<STR_file, <<102>>>>
    [] form = 4 -> <<STR_file>>
    [] form = 5 -> <<STR_qr_image, <<113>>>>
    [] form = 6 -> <<STR_qr_image>>
    [] form = 7 -> <<STR_interactive>>

\* the files: kind 1 is missing, 2 cannot be read as an image, 3 is an image
\* without a QR code, 4 holds the text
CliFile(kind, text) == TextFile(kind >= 2, text)

CliImage(kind, text) ==
  ImageFile(kind >= 2, kind >= 3, IF kind = 4 THEN JStr(text) ELSE Undefined)

\* the script is started
CliStart(args, file, image) ==
  /\ cli = NoCli
  /\ cli' = main(Inputs(args, file, image))
  /\ UNCHANGED <<env, now, token, origin, signed, call, tasks>>

CliStartAny ==
  /\ cli = NoCli
  /\ \E form \in 1..7, kind \in 1..4, t \in 1..NumCliTexts :
       /\ form \in {1, 4, 6, 7} => kind = 1 /\ t = 1
       /\ form = 2 => kind = 1
       /\ kind < 4 => t = 1
       /\ CliStart(CliArgs(form, CliText(t)), CliFile(kind, CliText(t)),
                   CliImage(kind, CliText(t)))

\* Jimp.read settles and the script scans the image
CliImageRead ==
  /\ cli.pc = "read"
  /\ cli' = AfterExtraction(cli.inputs, extractJWTFromQRImage(cli.inputs.image))
  /\ UNCHANGED <<env, now, token, origin, signed, call, tasks>>

\* the fetch settles: the API cannot be reached, or /verify-jwt answers
CliFetch(reachable, binding) ==
  /\ cli.pc = "fetch"
  /\ cli' = AfterFetch(cli, reachable,
                       IF reachable THEN postVerifyJwt(cli.request, binding, env, now).response
                       ELSE NoAnswer)
  /\ UNCHANGED <<env, now, token, origin, signed, call, tasks>>

CliFetchAny ==
  /\ cli.pc = "fetch"
  /\ \E reachable \in BOOLEAN, s \in 1..Len(EnvSecrets) :
       /\ ~reachable => s = 1
       /\ CliFetch(reachable, EnvSecrets[s])

NextCli == CliStartAny \/ CliImageRead \/ CliFetchAny

SpecCli == Init /\ [][NextCli]_vars

(***************************************************************************)
(* Calls in flight together.  signJWT and verifyJWT are async functions:   *)
(* each runs to its first await (subtle.importKey), then to its second     *)
(* (subtle.sign or subtle.verify), then to its end, and the calls of the   *)
(* callers interleave at these points.  A task is a call with its          *)
(* arguments, its local constants, the clock reading it made (0 when it    *)
(* ended before reading the clock) and its result.                         *)
(***************************************************************************)
CallArgs(subject, secret, options, uuid) ==
  [secret |-> secret, uuid |-> uuid, options |-> options, subject |-> subject]

\* const jwtSecret, signingInput, encodedSignature, payload, key, signature
Locals(jwtSecret, signingInput, encodedSignature, payload, key, signature) ==
  [key |-> key, signature |-> signature,
   payload |-> payload, signingInput |-> signingInput, jwtSecret |-> jwtSecret,
   encodedSignature |-> encodedSignature]

NoLocals == Locals(<<>>, <<>>, <<>>, Undefined, <<>>, <<>>)

Task(kind, pc, args, clock, locals, result, overlapped) ==
  [pc |-> pc, result |-> result, args |-> args, kind |-> kind, clock |-> clock,
   locals |-> locals, overlapped |-> overlapped]

\* the promise is not settled yet
Pending == [ok |-> FALSE]

InFlight(task) == task.pc \notin {"idle", "done"}

\* signJWT up to `await subtle.importKey`
signStart(args, envSecret, nowSec) ==
  Let(ResolveSecret(args.secret, envSecret), LAMBDA jwtSecret :
    IF ~jwtSecret.ok
    THEN Task("signJWT", "done", args, 0, NoLocals,
              SignThrow("JWT_SECRET environment variable is required"), FALSE)
    ELSE
      Let(StandardClaims(IssuedClaims(args.subject, nowSec, args.uuid), args.options),
          LAMBDA claims :
        IF Truthy(args.options.expiresIn)
             /\ ~parseExpirationTime(args.options.expiresIn.s).ok
        THEN Task("signJWT", "done", args, nowSec, NoLocals,
                  SignThrow("Invalid expiration time format"), FALSE)
        ELSE
          Let(IF Truthy(args.options.expiresIn)
              THEN WithExpiry(claims, nowSec,
                              parseExpirationTime(args.options.expiresIn.s).seconds)
              ELSE claims,
              LAMBDA processedPayload :
            Let(base64UrlEncode(JSONstringify(JwtHeader)), LAMBDA encodedHeader :
              Let(base64UrlEncode(JSONstringify(processedPayload)),
                  LAMBDA encodedPayload :
                IF ~encodedHeader.ok \/ ~encodedPayload.ok
                THEN Task("signJWT", "done", args, nowSec, NoLocals,
                          SignThrow("InvalidCharacterError"), FALSE)
                ELSE Task("signJWT", "importKey", args, nowSec,
                          Locals(jwtSecret.s,
                                 encodedHeader.s \o <<46>> \o encodedPayload.s,
                                 <<>>, Undefined, <<>>, <<>>),
                          Pending, FALSE))))))

VerifyEnded(args, message, decoded) ==
  Task("verifyJWT", "done", args, 0, NoLocals, VerifyThrow(message, decoded), FALSE)

\* verifyJWT up to `await subtle.importKey`
verifyStart(args, envSecret) ==
  Let(ResolveSecret(args.secret, envSecret), LAMBDA jwtSecret :
    IF ~jwtSecret.ok
    THEN VerifyEnded(args, "JWT_SECRET environment variable is required", 0)
    ELSE
      Let(Split(args.subject.s), LAMBDA parts :
        IF Len(parts) # 3 THEN VerifyEnded(args, "Invalid JWT format", 0)
        ELSE
          Let(DecodeSegment(parts[1]), LAMBDA header :
            IF ~header.ok THEN VerifyEnded(args, header.message, 1)
            ELSE
              Let(DecodeSegment(parts[2]), LAMBDA payload :
                IF ~payload.ok THEN VerifyEnded(args, payload.message, 2)
                ELSE IF header.v.t = "null" THEN VerifyEnded(args, "TypeError", 2)
                ELSE IF AlgUnsupported(header.v)
                THEN VerifyEnded(args, "Unsupported algorithm", 2)
                ELSE IF AlgNotAllowed(args.options, header.v)
                THEN VerifyEnded(args, "Algorithm not allowed", 2)
                ELSE Task("verifyJWT", "importKey", args, 0,
                          Locals(jwtSecret.s, parts[1] \o <<46>> \o parts[2], parts[3],
                                 payload.v, <<>>, <<>>),
                          Pending, FALSE)))))

\* Variant in which signingInput would be a variable of the module that the
\* calls share: a call reads what another call in flight wrote.
SharedSigningInput(all, i) ==
  LET others == {j \in DOMAIN all : j # i /\ InFlight(all[j])}
  IN IF others = {} THEN all[i].locals.signingInput
     ELSE all[CHOOSE j \in others : TRUE].locals.signingInput

\* the signingInput that call i reads: its own constant
OwnSigningInput(all, i) == all[i].locals.signingInput

\* importKey settles.  signJWT goes on to `await subtle.sign`; verifyJWT
\* turns the signature segment into bytes and goes on to
\* `await subtle.verify`.
importKeySettled(task) ==
  Let(TextEncoderEncode(task.locals.jwtSecret), LAMBDA key :
    IF task.kind = "signJWT"
    THEN [task EXCEPT !.pc = "sign", !.locals.key = key]
    ELSE
      Let(DecodeSignature(task.locals.encodedSignature), LAMBDA signature :
        IF ~signature.ok
        THEN [task EXCEPT !.pc = "done",
                          !.result = VerifyThrow("InvalidCharacterError", 3)]
        ELSE [task EXCEPT !.pc = "verify", !.locals.key = key,
                          !.locals.signature = signature.s]))

\* subtle.sign settles: the token is returned
signSettled(all, i) ==
  Let(OwnSigningInput(all, i), LAMBDA signingInput :
    Let(HmacSha256(all[i].locals.key, TextEncoderEncode(signingInput)),
        LAMBDA signature :
      [all[i] EXCEPT
         !.pc = "done",
         !.result = SignResult(TRUE,
                               signingInput \o <<46>> \o base64UrlEncode(signature).s,
                               NoError)]))

\* subtle.verify settles: the clock is read and the claims are checked
verifySettled(all, i, nowSec) ==
  IF ~subtleVerify(all[i].locals.key, all[i].locals.signature,
                   TextEncoderEncode(OwnSigningInput(all, i)))
  THEN [all[i] EXCEPT !.pc = "done", !.result = VerifyThrow("Invalid JWT signature", 3)]
  ELSE [all[i] EXCEPT !.pc = "done", !.clock = nowSec,
                      !.result = CheckClaims(all[i].locals.payload, all[i].args.options,
                                             nowSec)]

\* the task after one of its steps; it is marked when the step was made
\* while another call was in flight
Stepped(i, task) ==
  [task EXCEPT !.overlapped = task.overlapped
                                \/ \E j \in Callers : j # i /\ InFlight(tasks[j])]

\* the tokens given to verifyJWT: signed under "k" with exp one second after
\* the start, signed under "k" with no exp, one whose signature segment is
\* "!", and "a.b"
TaskTokens ==
  <<Crafted(3, 7, 3), Crafted(3, 1, 3), Crafted(3, 1, 2), LiteralTokens[3]>>

StartSign(i, payload, secret, options) ==
  /\ tasks[i] = IdleTask
  /\ tasks' = [tasks EXCEPT
                 ![i] = Stepped(i, signStart(CallArgs(payload, secret, options, Uuids[i]),
                                             env, now))]
  /\ UNCHANGED <<env, now, token, origin, signed, call, cli>>

StartSignAny ==
  \E i \in Callers, p \in {2, 5}, s \in {1, 3}, o \in {1, 4} :
    StartSign(i, Payloads[p], SignSecrets[s], SignOptionsList[o])

StartVerify(i, tok, secret, options) ==
  /\ tasks[i] = IdleTask
  /\ tasks' = [tasks EXCEPT
                 ![i] = Stepped(i, verifyStart(CallArgs(JStr(tok), secret, options, <<>>),
                                               env))]
  /\ UNCHANGED <<env, now, token, origin, signed, call, cli>>

StartVerifyAny ==
  \E i \in Callers, t \in 1..Len(TaskTokens), s \in {1, 2} :
    StartVerify(i, TaskTokens[t], VerifySecrets[s], NoVerifyOptions)

ImportKeySettles ==
  \E i \in Callers :
    /\ tasks[i].pc = "importKey"
    /\ tasks' = [tasks EXCEPT ![i] = Stepped(i, importKeySettled(tasks[i]))]
    /\ UNCHANGED <<env, now, token, origin, signed, call, cli>>

SignSettles ==
  \E i \in Callers :
    /\ tasks[i].pc = "sign"
    /\ tasks' = [tasks EXCEPT ![i] = Stepped(i, signSettled(tasks, i))]
    /\ UNCHANGED <<env, now, token, origin, signed, call, cli>>

VerifySettles ==
  \E i \in Callers :
    /\ tasks[i].pc = "verify"
    /\ tasks' = [tasks EXCEPT ![i] = Stepped(i, verifySettled(tasks, i, now))]
    /\ UNCHANGED <<env, now, token, origin, signed, call, cli>>

\* the clock advances while calls are in flight
ClockAdvances ==
  /\ \E i \in Callers : InFlight(tasks[i])
  /\ now < StartTime + MaxTicks
  /\ now' = now + 1
  /\ UNCHANGED <<env, token, origin, signed, call, cli, tasks>>

NextConcurrent ==
  \/ StartSignAny
  \/ StartVerifyAny
  \/ ImportKeySettles
  \/ SignSettles
  \/ VerifySettles
  \/ ClockAdvances

SpecConcurrent == Init /\ [][NextConcurrent]_vars

(***************************************************************************)
(* Durations: callers sign with an expiresIn option of every shape and     *)
(* inspect the token returned.                                             *)
(***************************************************************************)
\* "", "1", "s", "1x", "1s", "2m", "1h", "1d", "a1s", "10s", "0s", "1S",
\* "1s ", "-1s"
Durations ==
  << <<>>, <<49>>, <<115>>, <<49, 120>>, <<49, 115>>, <<50, 109>>, <<49, 104>>,
     <<49, 100>>, <<97, 49, 115>>, <<49, 48, 115>>, <<48, 115>>, <<49, 83>>,
     <<49, 115, 32>>, <<45, 49, 115>> >>

SignWithDuration ==
  \E p \in {1, 2}, s \in {1, 3}, d \in 1..Len(Durations), u \in 1..Len(Uuids) :
    Sign(Payloads[p], SignSecrets[s],
         SignOptions(Undefined, Undefined, Undefined, JStr(Durations[d])), Uuids[u])

NextDuration == SignWithDuration \/ Decode

SpecDuration == Init /\ [][NextDuration]_vars

(***************************************************************************)
(* The checks of a verification as the specification states them, read     *)
(* off a call record: c.token, c.secret, c.options and c.now.  An option   *)
(* is given when the caller passed it, whatever its value.                 *)
(***************************************************************************)
Given(option) == option.t # "undefined"

IsVerifyCall == call.op = "verifyJWT"

IsDecodeCall == call.op = "decodeJWTUnsafe"

ThreeSegments(c) == Len(Split(c.token)) = 3

HeaderOf(c) == DecodeSegment(Split(c.token)[1])

PayloadOf(c) == DecodeSegment(Split(c.token)[2])

SegmentsDecode(c) == ThreeSegments(c) /\ HeaderOf(c).ok /\ PayloadOf(c).ok

AlgorithmAccepted(c) ==
  /\ JEq(Get(HeaderOf(c).v, STR_alg), JStr(STR_HS256))
  /\ Given(c.options.algorithms) =>
       \E i \in 1..Len(c.options.algorithms.s) :
         JEq(c.options.algorithms.s[i], JStr(STR_HS256))

\* the signature segment decodes to the HMAC of header.payload under the
\* secret the call uses
SignatureMatches(c) ==
  Let(Split(c.token), LAMBDA parts :
    /\ ResolveSecret(c.secret, env).ok
    /\ DecodeSignature(parts[3]).ok
    /\ DecodeSignature(parts[3]).s
         = HmacSha256(TextEncoderEncode(ResolveSecret(c.secret, env).s),
                      TextEncoderEncode(parts[1] \o <<46>> \o parts[2])))

ExpiryPasses(c) ==
  HasKey(PayloadOf(c).v, STR_exp) => ~LessThan(Get(PayloadOf(c).v, STR_exp), c.now)

NotBeforePasses(c) ==
  HasKey(PayloadOf(c).v, STR_nbf) => ~GreaterThan(Get(PayloadOf(c).v, STR_nbf), c.now)

IssuerPasses(c) ==
  Given(c.options.issuer) => JEq(Get(PayloadOf(c).v, STR_iss), c.options.issuer)

AudiencePasses(c) ==
  Given(c.options.audience) => JEq(Get(PayloadOf(c).v, STR_aud), c.options.audience)

\* structure, algorithm and signature
AuthenticToken(c) ==
  SegmentsDecode(c) /\ PayloadOf(c).v.t = "obj" /\ AlgorithmAccepted(c) /\ SignatureMatches(c)

CallKind == ErrorKind(call.result.error)

(***************************************************************************)
(* C1: verifyJWT returns a payload only if every check passed: three       *)
(* segments, alg HS256 (and allowed), the signature is the HMAC under the  *)
(* secret used, exp not before now, nbf not after now, iss and aud equal   *)
(* to the options given.                                                   *)
(***************************************************************************)
C1_PayloadOnlyIfAllChecksPass ==
  (IsVerifyCall /\ call.result.ok) =>
    /\ AuthenticToken(call)
    /\ ExpiryPasses(call)
    /\ NotBeforePasses(call)
    /\ IssuerPasses(call)
    /\ AudiencePasses(call)

(***************************************************************************)
(* C5: a correctly signed token with an integer exp claim (0 included)     *)
(* that passes all other checks fails with TokenExpired exactly when       *)
(* exp < now, and verifies when now <= exp.                                *)
(***************************************************************************)
C5_ExpiryRule ==
  (/\ IsVerifyCall
   /\ AuthenticToken(call)
   /\ Get(PayloadOf(call).v, STR_exp).t = "num"
   /\ NotBeforePasses(call) /\ IssuerPasses(call) /\ AudiencePasses(call))
  => IF Get(PayloadOf(call).v, STR_exp).n < call.now
     THEN CallKind = "TokenExpired"
     ELSE call.result.ok

(***************************************************************************)
(* C9: a token signed with issuer X fails with IssuerMismatch when         *)
(* verified with an issuer Y # X and verifies with no issuer option or     *)
(* with issuer X; a token without iss fails with IssuerMismatch whenever   *)
(* an issuer is given (all other checks passing).                          *)
(***************************************************************************)
C9_IssuerEnforcement ==
  (/\ IsVerifyCall
   /\ origin = "signed"
   /\ AuthenticToken(call)
   /\ ExpiryPasses(call) /\ NotBeforePasses(call) /\ AudiencePasses(call))
  => /\ (/\ Given(signed.options.issuer) /\ Given(call.options.issuer)
         /\ signed.options.issuer.s # call.options.issuer.s)
          => CallKind = "IssuerMismatch"
     /\ (/\ Given(signed.options.issuer)
         /\ Given(call.options.issuer) => signed.options.issuer.s = call.options.issuer.s)
          => call.result.ok
     /\ (~HasKey(PayloadOf(call).v, STR_iss) /\ Given(call.options.issuer))
          => CallKind = "IssuerMismatch"

\* The keys of a JSON object.
Keys(object) == {object.s[i].k : i \in 1..Len(object.s)}

\* The option strings and the claims they configure.
Configured(options) ==
  (IF Given(options.issuer) THEN {STR_iss} ELSE {})
    \cup (IF Given(options.audience) THEN {STR_aud} ELSE {})
    \cup (IF Given(options.subject) THEN {STR_sub} ELSE {})
    \cup (IF Given(options.expiresIn) THEN {STR_exp} ELSE {})

\* The value the round trip is expected to return for a key, from the
\* recorded signJWT call.
ExpectedClaim(sg, key) ==
  IF key = STR_iat THEN JNum(sg.now)
  ELSE IF key = STR_jti THEN JStr(sg.uuid)
  ELSE IF key = STR_iss /\ Given(sg.options.issuer) THEN sg.options.issuer
  ELSE IF key = STR_aud /\ Given(sg.options.audience) THEN sg.options.audience
  ELSE IF key = STR_sub /\ Given(sg.options.subject) THEN sg.options.subject
  ELSE IF key = STR_exp /\ Given(sg.options.expiresIn)
    THEN JNum(sg.now + parseExpirationTime(sg.options.expiresIn.s).seconds)
  ELSE Get(sg.payload, key)

\* Inputs the round trip is stated for, read narrowly: a non-empty secret,
\* option strings that are non-empty, a duration that parses, and a payload
\* that brings no exp or nbf of its own.
RoundTripInputs(sg) ==
  /\ sg.secret.t = "str" /\ sg.secret.s # <<>>
  /\ \A o \in {sg.options.issuer, sg.options.audience, sg.options.subject,
               sg.options.expiresIn} : Given(o) => o.s # <<>>
  /\ Given(sg.options.expiresIn) => parseExpirationTime(sg.options.expiresIn.s).ok
  /\ ~HasKey(sg.payload, STR_exp) /\ ~HasKey(sg.payload, STR_nbf)

(***************************************************************************)
(* C2: round trip.  For a JSON-object payload P, a secret S and signing    *)
(* options, signJWT succeeds, and verifyJWT of its token with S at the     *)
(* same time succeeds and returns P plus the engine-added claims (iat,     *)
(* jti, and iss/aud/sub/exp for each configured option), every other       *)
(* claim of P unchanged.                                                   *)
(***************************************************************************)
C2_RoundTrip ==
  (signed.called /\ RoundTripInputs(signed))
  => /\ signed.result.ok
     /\ (/\ IsVerifyCall
         /\ call.secret = signed.secret
         /\ call.options = NoVerifyOptions
         /\ call.now = signed.now)
        => /\ call.result.ok
           /\ Keys(call.result.payload)
                = Keys(signed.payload) \cup {STR_iat, STR_jti} \cup Configured(signed.options)
           /\ \A key \in Keys(call.result.payload) :
                JEq(Get(call.result.payload, key), ExpectedClaim(signed, key))

(***************************************************************************)
(* C10: issuance claims cannot be forged.  Whatever payload is passed to   *)
(* signJWT, also one that already contains iat and jti, the payload of     *)
(* the token has iat equal to the engine's time at signing and jti equal   *)
(* to the freshly generated identifier.                                    *)
(***************************************************************************)
C10_IssuanceNotForged ==
  (origin = "signed" /\ IsDecodeCall)
  => /\ call.result.ok
     /\ JEq(Get(call.result.payload, STR_iat), JNum(signed.now))
     /\ JEq(Get(call.result.payload, STR_jti), JStr(signed.uuid))

\* A token signed from a payload that already carried iat and jti, other
\* than the engine's, has been decoded.
C10_Witness ==
  /\ origin = "signed" /\ IsDecodeCall /\ call.result.ok
  /\ HasKey(signed.payload, STR_iat) /\ HasKey(signed.payload, STR_jti)
  /\ ~JEq(Get(signed.payload, STR_iat), JNum(signed.now))
  /\ ~JEq(Get(signed.payload, STR_jti), JStr(signed.uuid))

\* The number of dots of a string, and whether one of the 3 segments of a
\* string with 2 dots is empty.
Dots(str) == Cardinality({i \in 1..Len(str) : str[i] = 46})

HasEmptySegment(str) ==
  \/ str[1] = 46
  \/ str[Len(str)] = 46
  \/ \E i \in 1..(Len(str) - 1) : str[i] = 46 /\ str[i + 1] = 46

\* A secret of the contract: a non-empty string.
IsSecret(v) == v.t = "str" /\ v.s # <<>>

\* A key without its trailing zero bytes.
RECURSIVE TrimZeros(_)
TrimZeros(key) ==
  IF key # <<>> /\ key[Len(key)] = 0 THEN TrimZeros(SubSeq(key, 1, Len(key) - 1)) ELSE key

\* A key is available to the call: the secret passed, or the process default.
SecretAvailable(c) == ResolveSecret(c.secret, env).ok

(***************************************************************************)
(* C3: tamper detection.  A token of signJWT in which one character of a   *)
(* segment was replaced by a different character fails verifyJWT with the  *)
(* signing secret (with InvalidSignature or MalformedSegment); it never    *)
(* succeeds.  The formula states the last clause: the call does not        *)
(* succeed.                                                                *)
(***************************************************************************)
C3_TamperNeverVerifies ==
  (origin = "tampered" /\ IsVerifyCall /\ call.secret = signed.secret)
  => ~call.result.ok

(***************************************************************************)
(* C4, as stated: for secrets S1 # S2 passed to the calls,                 *)
(* verifyJWT(signJWT(P, S1), S2) fails with InvalidSignature.              *)
(***************************************************************************)
C4_AnyDistinctSecrets ==
  (/\ origin = "signed" /\ IsVerifyCall
   /\ IsSecret(signed.secret) /\ IsSecret(call.secret)
   /\ signed.secret.s # call.secret.s
   /\ ~Given(call.options.algorithms))
  => CallKind = "InvalidSignature"

(***************************************************************************)
(* C4, amended: for non-empty secrets S1, S2 of at most 64 bytes that      *)
(* still differ once their trailing zero bytes are removed,                *)
(* verifyJWT(signJWT(P, S1), S2) called without an algorithms option       *)
(* fails with InvalidSignature.                                            *)
(***************************************************************************)
C4_DistinctKeysRejected ==
  (/\ origin = "signed" /\ IsVerifyCall
   /\ IsSecret(signed.secret) /\ IsSecret(call.secret)
   /\ Len(signed.secret.s) <= BlockSize /\ Len(call.secret.s) <= BlockSize
   /\ TrimZeros(signed.secret.s) # TrimZeros(call.secret.s)
   /\ ~Given(call.options.algorithms))
  => CallKind = "InvalidSignature"

\* A token signed with "k" followed by a zero byte was verified with "j" and
\* rejected for its signature.
C4_Witness ==
  /\ origin = "signed" /\ IsVerifyCall
  /\ signed.secret = JStr(<<107, 0>>) /\ call.secret = JStr(STR_j)
  /\ CallKind = "InvalidSignature"

\* The header of the call's token decodes to a value (not null) whose alg is
\* not "HS256".
HeaderNamesOtherAlgorithm(c) ==
  /\ Dots(c.token) = 2
  /\ HeaderOf(c).ok
  /\ HeaderOf(c).v.t # "null"
  /\ ~JEq(Get(HeaderOf(c).v, STR_alg), JStr(STR_HS256))

(***************************************************************************)
(* C6, as stated: every 3-segment token whose decoded header has an alg    *)
(* other than "HS256" makes verifyJWT fail with UnsupportedAlgorithm,      *)
(* whatever the signature segment and options.algorithms.                  *)
(***************************************************************************)
C6_AlwaysUnsupportedAlgorithm ==
  (IsVerifyCall /\ HeaderNamesOtherAlgorithm(call))
  => CallKind = "UnsupportedAlgorithm"

(***************************************************************************)
(* C6, amended: every 3-segment token whose header and payload segments    *)
(* both decode and whose header has an alg other than "HS256" makes        *)
(* verifyJWT, called with a secret available, fail with                    *)
(* UnsupportedAlgorithm, whatever the signature segment and                *)
(* options.algorithms.                                                     *)
(***************************************************************************)
C6_AlgorithmRejected ==
  (/\ IsVerifyCall
   /\ HeaderNamesOtherAlgorithm(call)
   /\ PayloadOf(call).ok
   /\ SecretAvailable(call))
  => CallKind = "UnsupportedAlgorithm"

\* The token with alg "none", a payload that decodes and the HMAC under "k" as
\* its signature was verified with "k" and algorithms given, and rejected
\* for its algorithm.
C6_Witness ==
  /\ IsVerifyCall
  /\ call.token = Crafted(1, 1, 3)
  /\ call.secret = JStr(STR_k)
  /\ Given(call.options.algorithms)
  /\ CallKind = "UnsupportedAlgorithm"

\* The call's token does not have exactly 3 segments.
WrongSegmentCount(c) == Dots(c.token) # 2

(***************************************************************************)
(* C7, as stated: every string that does not split on "." into exactly 3   *)
(* segments makes verifyJWT and decodeJWTUnsafe fail with MalformedToken,   *)
(* before any segment is decoded.                                          *)
(***************************************************************************)
C7_WrongCountAlwaysMalformedToken ==
  ((IsVerifyCall \/ IsDecodeCall) /\ WrongSegmentCount(call))
  => CallKind = "MalformedToken" /\ call.result.decoded = 0

(***************************************************************************)
(* C7, amended: every string that does not split on "." into exactly 3     *)
(* segments makes decodeJWTUnsafe, and verifyJWT when a secret is          *)
(* available to it, fail with MalformedToken before any segment is         *)
(* decoded.                                                                *)
(***************************************************************************)
C7_WrongCountMalformedToken ==
  (/\ IsVerifyCall \/ IsDecodeCall
   /\ WrongSegmentCount(call)
   /\ IsVerifyCall => SecretAvailable(call))
  => CallKind = "MalformedToken" /\ call.result.decoded = 0

\* "a.b.c.d" was given to verifyJWT with a secret and rejected as malformed.
C7_Witness ==
  /\ IsVerifyCall
  /\ call.token = LiteralTokens[4]
  /\ SecretAvailable(call)
  /\ CallKind = "MalformedToken"

(***************************************************************************)
(* C8: every token of 3 dot-separated segments of which at least one is    *)
(* empty is rejected by verifyJWT with MalformedToken at the split step,   *)
(* not with a later kind.  The formula takes the calls that have a secret. *)
(***************************************************************************)
C8_EmptySegmentMalformedToken ==
  (/\ IsVerifyCall
   /\ Dots(call.token) = 2
   /\ HasEmptySegment(call.token)
   /\ SecretAvailable(call))
  => CallKind = "MalformedToken" /\ call.result.decoded = 0

IsExpiredCall == call.op = "isJWTExpired"

\* The call's token has 3 segments of which the first two decode, the payload
\* to an object.
StructurallyValid(c) ==
  /\ Dots(c.token) = 2
  /\ HeaderOf(c).ok
  /\ PayloadOf(c).ok
  /\ PayloadOf(c).v.t = "obj"

(***************************************************************************)
(* C14: isJWTExpired returns false for every structurally valid token      *)
(* whose payload has no exp claim, and for a token with an (integer) exp   *)
(* claim returns true exactly when exp < now, whatever the signature.      *)
(***************************************************************************)
C14_IsExpiredRule ==
  (/\ IsExpiredCall
   /\ StructurallyValid(call)
   /\ Get(PayloadOf(call).v, STR_exp).t \in {"undefined", "num"})
  => /\ call.result.ok
     /\ call.result.expired
          = (/\ HasKey(PayloadOf(call).v, STR_exp)
             /\ Get(PayloadOf(call).v, STR_exp).n < call.now)

\* The specific kinds of the error taxonomy.
IsSpecificKind(kind) ==
  kind \in {"MissingSecret", "MalformedToken", "MalformedSegment", "UnsupportedAlgorithm",
            "AlgorithmNotAllowed", "InvalidSignature", "TokenExpired", "TokenNotYetValid",
            "IssuerMismatch", "AudienceMismatch", "InvalidDuration"}

(***************************************************************************)
(* C11: error kinds are preserved.  Every failure of signJWT, verifyJWT,   *)
(* decodeJWTUnsafe or isJWTExpired reaches the caller with one of the      *)
(* specific kinds of the taxonomy; none is a generic failure.              *)
(***************************************************************************)
C11_FailuresHaveSpecificKind ==
  /\ (signed.called /\ ~signed.result.ok) => IsSpecificKind(ErrorKind(signed.result.error))
  /\ (call # NoCall /\ ~call.result.ok) => IsSpecificKind(CallKind)

\* The characters of a string after its last dot.
AfterLastDot(str) ==
  Let(CHOOSE d \in 0..Len(str) :
        /\ d = 0 \/ str[d] = 46
        /\ \A e \in (d + 1)..Len(str) : str[e] # 46,
      LAMBDA last : Slice(str, last + 1, Len(str)))

(***************************************************************************)
(* C15: unsafe inspection checks structure only.  For every token of 3     *)
(* segments whose header and payload segments decode, decodeJWTUnsafe      *)
(* returns the decoded header, the decoded payload and the signature       *)
(* segment, whatever the signature, the algorithm, the secret or the       *)
(* claims; when it fails, it fails with MalformedToken or                  *)
(* MalformedSegment.                                                       *)
(***************************************************************************)
C15_DecodeChecksStructureOnly ==
  IsDecodeCall
  => /\ (Dots(call.token) = 2 /\ HeaderOf(call).ok /\ PayloadOf(call).ok)
          => /\ call.result.ok
             /\ JEq(call.result.header, HeaderOf(call).v)
             /\ JEq(call.result.payload, PayloadOf(call).v)
             /\ call.result.signature = AfterLastDot(call.token)
     /\ ~call.result.ok => CallKind \in {"MalformedToken", "MalformedSegment"}

\* The token with alg "none", an exp in the past and "!" as its signature was
\* decoded.
C15_Witness ==
  /\ IsDecodeCall
  /\ call.token = Crafted(1, 5, 2)
  /\ call.result.ok
  /\ call.result.signature = <<33>>

(***************************************************************************)
(* C19: non-object segments are rejected.  A 3-segment token whose header  *)
(* or payload segment decodes to JSON that is not an object makes          *)
(* verifyJWT fail with MalformedSegment, also when the signature is a      *)
(* valid HMAC of the two segments; verifyJWT never returns a non-object    *)
(* payload.  The formula states the last clause.                           *)
(***************************************************************************)
C19_NeverReturnsNonObject ==
  (IsVerifyCall /\ call.result.ok) => call.result.payload.t = "obj"

\* The kind of the earliest check that the call's token violates, in the
\* order split, decode, algorithm, signature, expiry, not-before, issuer,
\* audience; "None" when it violates none.
FirstViolatedKind(c) ==
  IF Dots(c.token) # 2 THEN "MalformedToken"
  ELSE IF ~HeaderOf(c).ok \/ ~PayloadOf(c).ok THEN "MalformedSegment"
  ELSE IF ~JEq(Get(HeaderOf(c).v, STR_alg), JStr(STR_HS256)) THEN "UnsupportedAlgorithm"
  ELSE IF ~AlgorithmAccepted(c) THEN "AlgorithmNotAllowed"
  ELSE IF ~DecodeSignature(AfterLastDot(c.token)).ok THEN "MalformedSegment"
  ELSE IF ~SignatureMatches(c) THEN "InvalidSignature"
  ELSE IF ~ExpiryPasses(c) THEN "TokenExpired"
  ELSE IF ~NotBeforePasses(c) THEN "TokenNotYetValid"
  ELSE IF ~IssuerPasses(c) THEN "IssuerMismatch"
  ELSE IF ~AudiencePasses(c) THEN "AudienceMismatch"
  ELSE "None"

(***************************************************************************)
(* C18: check order and short-circuit.  A call of verifyJWT (with a secret *)
(* available) that fails reports the failure of the earliest check that    *)
(* the token violates, in the order split, decode, algorithm, signature,   *)
(* expiry, not-before, issuer, audience.                                   *)
(***************************************************************************)
C18_EarliestViolationReported ==
  (IsVerifyCall /\ SecretAvailable(call) /\ ~call.result.ok)
  => CallKind = FirstViolatedKind(call)

\* The optional reserved claims and the signing option behind each of them.
OptionalClaims == {STR_exp, STR_iss, STR_aud, STR_sub}

OptionFor(options, key) ==
  IF key = STR_exp THEN options.expiresIn
  ELSE IF key = STR_iss THEN options.issuer
  ELSE IF key = STR_aud THEN options.audience
  ELSE options.subject

\* The payload embedded in the token that the recorded signJWT call returned.
SignedPayload == DecodeSegment(Split(signed.result.token)[2]).v

(***************************************************************************)
(* C20, as stated: the payload of every token produced by signJWT contains *)
(* exp only if options.expiresIn was configured, and iss, aud, sub only if *)
(* options.issuer, options.audience, options.subject were supplied,        *)
(* whatever claims the caller's payload contained.                         *)
(***************************************************************************)
C20_OnlyConfiguredClaims ==
  (signed.called /\ signed.result.ok)
  => \A key \in OptionalClaims :
       HasKey(SignedPayload, key) => Given(OptionFor(signed.options, key))

(***************************************************************************)
(* C20, amended: in the payload of every token produced by signJWT, each   *)
(* of exp, iss, aud, sub is the engine's value when the corresponding      *)
(* option is supplied as a non-empty string (exp = now + the duration, iss,*)
(* aud, sub = the option), replacing the caller's; otherwise it is exactly *)
(* what the caller's payload had for it, absent if the caller's payload    *)
(* did not contain it.                                                     *)
(***************************************************************************)
C20_ClaimsFromOptionOrCaller ==
  (signed.called /\ signed.result.ok)
  => Let(SignedPayload, LAMBDA claims :
       \A key \in OptionalClaims :
         IF Truthy(OptionFor(signed.options, key))
         THEN JEq(Get(claims, key),
                  IF key = STR_exp
                  THEN JNum(signed.now
                            + parseExpirationTime(signed.options.expiresIn.s).seconds)
                  ELSE OptionFor(signed.options, key))
         ELSE /\ HasKey(claims, key) = HasKey(signed.payload, key)
              /\ JEq(Get(claims, key), Get(signed.payload, key)))

\* A payload that brought its own iss and exp was signed with issuer and
\* expiresIn options: the token has the engine's values for both.
C20_Witness ==
  /\ signed.called /\ signed.result.ok
  /\ HasKey(signed.payload, STR_iss) /\ HasKey(signed.payload, STR_exp)
  /\ Truthy(signed.options.issuer) /\ Truthy(signed.options.expiresIn)
  /\ JEq(Get(SignedPayload, STR_iss), signed.options.issuer)
  /\ ~JEq(Get(SignedPayload, STR_iss), Get(signed.payload, STR_iss))
  /\ ~JEq(Get(SignedPayload, STR_exp), Get(signed.payload, STR_exp))

\* The token's signature segment decodes to the HMAC of its first two
\* segments under the key.
SignedUnder(tok, key) ==
  Let(Split(tok), LAMBDA parts :
    /\ Len(parts) = 3
    /\ DecodeSignature(parts[3]).ok
    /\ DecodeSignature(parts[3]).s
         = HmacSha256(TextEncoderEncode(key.s),
                      TextEncoderEncode(parts[1] \o <<46>> \o parts[2])))

\* signJWT used the key: it did not miss a secret, and the token it returned
\* is signed under the key.
SignUsedKey(key) ==
  /\ ErrorKind(signed.result.error) # "MissingSecret"
  /\ signed.result.ok => SignedUnder(signed.result.token, key)

\* verifyJWT used the key: it did not miss a secret and, called without an
\* algorithms option, rejected the signature exactly when the token is not
\* signed under the key.
VerifyUsedKey(key) ==
  /\ CallKind # "MissingSecret"
  /\ ~Given(call.options.algorithms)
       => (CallKind = "InvalidSignature") = ~SignedUnder(call.token, key)

(***************************************************************************)
(* C17, as stated: when a secret argument is passed to signJWT or          *)
(* verifyJWT, that argument is the HMAC key and the process-wide default   *)
(* is not read; the default is used only when no secret argument is        *)
(* passed; with no argument and no default the call fails with             *)
(* MissingSecret and produces no token or payload.                         *)
(***************************************************************************)
C17_PassedSecretIsKey ==
  /\ signed.called
       => IF Given(signed.secret) THEN SignUsedKey(signed.secret)
          ELSE IF Given(env) THEN SignUsedKey(env)
          ELSE /\ ErrorKind(signed.result.error) = "MissingSecret"
               /\ signed.result.token = <<>>
  /\ IsVerifyCall
       => IF Given(call.secret) THEN VerifyUsedKey(call.secret)
          ELSE IF Given(env) THEN VerifyUsedKey(env)
          ELSE CallKind = "MissingSecret" /\ call.result.payload = Undefined

(***************************************************************************)
(* C17, amended: when a non-empty secret argument is passed to signJWT or  *)
(* verifyJWT, that argument is the HMAC key, whatever the process-wide     *)
(* default; when the argument is absent or the empty string, the default   *)
(* is the key; when the argument is absent or empty and no default is      *)
(* configured, the call fails with MissingSecret and produces no token or  *)
(* payload.                                                                *)
(***************************************************************************)
C17_SecretResolution ==
  /\ signed.called
       => IF IsSecret(signed.secret) THEN SignUsedKey(signed.secret)
          ELSE IF IsSecret(env) THEN SignUsedKey(env)
          ELSE /\ ErrorKind(signed.result.error) = "MissingSecret"
               /\ signed.result.token = <<>>
  /\ IsVerifyCall
       => IF IsSecret(call.secret) THEN VerifyUsedKey(call.secret)
          ELSE IF IsSecret(env) THEN VerifyUsedKey(env)
          ELSE CallKind = "MissingSecret" /\ call.result.payload = Undefined

\* With the default "k" configured, a token was signed with the argument "j"
\* (it is signed under "j", not under "k") and verified with the argument
\* "j".
C17_Witness ==
  /\ env = JStr(STR_k)
  /\ signed.called /\ signed.secret = JStr(STR_j) /\ signed.result.ok
  /\ SignedUnder(signed.result.token, JStr(STR_j))
  /\ ~SignedUnder(signed.result.token, env)
  /\ IsVerifyCall /\ call.secret = JStr(STR_j) /\ call.result.ok

\* The seconds of a duration of the shape <digits><unit>, unit one of s, m,
\* h, d; -1 for every other shape.
DurationSeconds(str) ==
  IF /\ Len(str) >= 2
     /\ \A i \in 1..(Len(str) - 1) : str[i] \in 48..57
     /\ str[Len(str)] \in {115, 109, 104, 100}
  THEN DigitsValue(SubSeq(str, 1, Len(str) - 1))
         * (CASE str[Len(str)] = 115 -> 1 [] str[Len(str)] = 109 -> 60
              [] str[Len(str)] = 104 -> 3600 [] str[Len(str)] = 100 -> 86400)
  ELSE -1

(***************************************************************************)
(* C16: duration option.  Whenever options.expiresIn is supplied to        *)
(* signJWT (and a secret is available), either it has the shape            *)
(* <digits><unit> and the token's exp equals iat + digits * unit seconds,  *)
(* or it has any other shape (the empty string among them) and signJWT     *)
(* fails with InvalidDuration, returning no token.                         *)
(***************************************************************************)
C16_DurationOption ==
  (signed.called /\ Given(signed.options.expiresIn) /\ SecretAvailable(signed))
  => IF DurationSeconds(signed.options.expiresIn.s) >= 0
     THEN /\ signed.result.ok
          /\ Get(SignedPayload, STR_exp).t = "num"
          /\ Get(SignedPayload, STR_exp).n
               = Get(SignedPayload, STR_iat).n + DurationSeconds(signed.options.expiresIn.s)
     ELSE /\ ErrorKind(signed.result.error) = "InvalidDuration"
          /\ signed.result.token = <<>>

IsVerifyRequest == call.op = "POST /verify-jwt"

IsGenerateRequest == "response" \in DOMAIN signed

\* The kinds with which verifyJWT rejects a token for what the token is.
IsInputKind(kind) ==
  kind \in {"MalformedToken", "MalformedSegment", "UnsupportedAlgorithm",
            "AlgorithmNotAllowed", "InvalidSignature", "TokenExpired",
            "TokenNotYetValid", "IssuerMismatch", "AudienceMismatch"}

\* The request to /verify-jwt fails because of its input: its body is not
\* JSON, or is no object, or has no jwt string, or has one that verifyJWT
\* rejects for what it is.
VerifyInputInvalid ==
  \/ ~JSONparse(call.request).ok
  \/ JSONparse(call.request).v.t # "obj"
  \/ Get(JSONparse(call.request).v, STR_jwt).t # "str"
  \/ Get(JSONparse(call.request).v, STR_jwt).s = <<>>
  \/ call.reached /\ IsInputKind(CallKind)

\* The request to /generate-jwt fails because of its input: its body is not
\* JSON or is no object.
GenerateInputInvalid == ~signed.called

(***************************************************************************)
(* C12: transport status mapping.  POST /verify-jwt and POST /generate-jwt *)
(* answer with a 400-class status whenever the request fails because of    *)
(* malformed or invalid input (missing jwt, malformed token, bad           *)
(* signature, expired token, wrong issuer, invalid request body) and with  *)
(* a 500-class status only for internal or unexpected failures.            *)
(***************************************************************************)
C12_StatusMapping ==
  /\ IsVerifyRequest
       => /\ VerifyInputInvalid => call.response.status \in 400..499
          /\ call.response.status \in 500..599 => ~VerifyInputInvalid
  /\ IsGenerateRequest
       => /\ GenerateInputInvalid => signed.response.status \in 400..499
          /\ signed.response.status \in 500..599 => ~GenerateInputInvalid

\* The payload embedded in the jwt of the response to /generate-jwt.
ResponseJwtPayload == DecodeSegment(Split(signed.response.jwt.s)[2]).v

\* Two JSON objects have the same keys with the same values.
SameClaims(a, b) ==
  /\ Keys(a) = Keys(b)
  /\ \A key \in Keys(a) : JEq(Get(a, key), Get(b, key))

(***************************************************************************)
(* C13: the payload returned by POST /generate-jwt is the claim set        *)
(* embedded in the returned jwt: for every accepted request body, the      *)
(* response's payload has the same keys and values as the payload decoded  *)
(* from the response's jwt, including iat, exp, iss = "cert-tools" and     *)
(* jti.                                                                    *)
(***************************************************************************)
C13_ResponsePayloadIsTokenPayload ==
  (IsGenerateRequest /\ signed.response.status = 200)
  => /\ SameClaims(signed.response.payload, ResponseJwtPayload)
     /\ JEq(Get(signed.response.payload, STR_iss), JStr(STR_cert_tools))
     /\ HasKey(signed.response.payload, STR_jti)

\* The text has exactly 3 dot-separated segments, none of them empty.
ThreeNonEmpty(text) == Dots(text) = 2 /\ ~HasEmptySegment(text)

\* The run took the --qr-image path and Jimp read the image.
ScannedImage ==
  /\ cli.pc = "done"
  /\ Len(cli.inputs.args) = 2 /\ cli.inputs.args[1] = STR_qr_image
  /\ cli.inputs.image.exists /\ cli.inputs.image.readable

(***************************************************************************)
(* C21: the verify script never hands a structurally invalid string to the *)
(* verifier.  On every path (direct argument, --file, --qr-image) the      *)
(* /verify-jwt API is asked only with a text of exactly 3 non-empty        *)
(* dot-separated segments; an image in which no QR code is found and a QR  *)
(* code whose text fails that check end in two distinct errors, and in     *)
(* neither case is the API asked.                                          *)
(***************************************************************************)
C21_ApiAskedOnlyWithThreeSegments ==
  /\ (cli # NoCli /\ cli.asked)
       => /\ JSONparse(cli.request).ok
          /\ Get(JSONparse(cli.request).v, STR_jwt).t = "str"
          /\ ThreeNonEmpty(Get(JSONparse(cli.request).v, STR_jwt).s)
  /\ (cli # NoCli /\ ScannedImage /\ ~Given(cli.inputs.image.code))
       => /\ ~cli.asked /\ cli.exit = 1
          /\ cli.error.message = "No QR code found in the image"
  /\ (cli # NoCli /\ ScannedImage /\ Given(cli.inputs.image.code)
        /\ ~ThreeNonEmpty(cli.inputs.image.code.s))
       => /\ ~cli.asked /\ cli.exit = 1
          /\ cli.error.message = "QR code does not contain a valid JWT format"
          /\ cli.error.message # "No QR code found in the image"

\* A run read a token from a QR image, asked the API and was answered 200.
C21_Witness ==
  /\ cli # NoCli /\ ScannedImage
  /\ cli.asked /\ cli.answer.status = 200
  /\ ThreeNonEmpty(cli.jwt)

\* The result the task's call has when run alone with the task's arguments,
\* clock reading and random identifier.
ResultAlone(task) ==
  IF task.kind = "signJWT"
  THEN signJWT(task.args.subject, task.args.secret, task.args.options, env, task.clock,
               task.args.uuid)
  ELSE verifyJWT(task.args.subject.s, task.args.secret, task.args.options, env,
                 task.clock)

(***************************************************************************)
(* C22: call independence under concurrency.  For calls of signJWT and     *)
(* verifyJWT in flight together with the same secret and interleaved at    *)
(* their await points in any order, the result of each call that has ended *)
(* equals the result it has when run alone with the same arguments, clock  *)
(* reading and random identifier.                                          *)
(***************************************************************************)
C22_CallsIndependent ==
  \A i \in Callers :
    tasks[i].pc = "done" => tasks[i].result = ResultAlone(tasks[i])

\* A signJWT call and a verifyJWT call have both ended successfully, each
\* having made a step while the other was in flight, on different messages.
C22_Witness ==
  /\ \A i \in Callers : tasks[i].pc = "done" /\ tasks[i].overlapped /\ tasks[i].result.ok
  /\ tasks[1].kind = "signJWT" /\ tasks[2].kind = "verifyJWT"
  /\ tasks[2].clock > tasks[1].clock

====
